---- MODULE Spec2Model ----
(***************************************************************************)
(* Model of the AList -> Emby renamer (src/renamer.py, src/logui.py):      *)
(* the name parser, the reconciliation engine (process_series_folder and   *)
(* its helpers), the undo ledger, the resume ledger and the main loop.     *)
(*                                                                         *)
(* Names are Python strings and are modelled as TLA+ strings; the regular  *)
(* expressions of the source are evaluated character by character.  The    *)
(* names of the model are built from the characters of Alphabet (ASCII     *)
(* letters, digits, space and . - _ ( ) ), so the alternatives of the      *)
(* source's patterns that need another character (CJK markers, brackets,   *)
(* full-width forms) can never match and are not written out.              *)
(***************************************************************************)
EXTENDS Integers, Sequences, FiniteSets, TLC

\* Python's None for an Optional[int]
NoneV == -1

(***************************************************************************)
(* Characters and strings                                                  *)
(***************************************************************************)
Ch(s, i) == IF i >= 1 /\ i <= Len(s) THEN SubSeq(s, i, i) ELSE ""

\* Python's s[i-1 : j] (indices past either end are clipped)
Slice(s, i, j) ==
    LET a == IF i < 1 THEN 1 ELSE i
        b == IF j > Len(s) THEN Len(s) ELSE j
    IN  IF a > b THEN "" ELSE SubSeq(s, a, b)

Digits == {"0", "1", "2", "3", "4", "5", "6", "7", "8", "9"}

UpperLetters == {"A", "B", "C", "D", "E", "F", "G", "H", "I", "J", "K", "L", "M",
                 "N", "O", "P", "Q", "R", "S", "T", "U", "V", "W", "X", "Y", "Z"}

LowerLetters == {"a", "b", "c", "d", "e", "f", "g", "h", "i", "j", "k", "l", "m",
                 "n", "o", "p", "q", "r", "s", "t", "u", "v", "w", "x", "y", "z"}

\* the characters of the model's names, in code point order (str comparison)
Alphabet == " ()-.0123456789ABCDEFGHIJKLMNOPQRSTUVWXYZ_abcdefghijklmnopqrstuvwxyz"

IsDigit(c) == c \in Digits
IsAlnum(c) == c \in Digits \cup UpperLetters \cup LowerLetters
\* \w of Python's re
IsWord(c) == IsAlnum(c) \/ c = "_"
\* the separator class [\s._\-] of the source's patterns
IsSep(c) == c \in {" ", ".", "_", "-"}

DigitVal(c) ==
    CASE c = "0" -> 0 [] c = "1" -> 1 [] c = "2" -> 2 [] c = "3" -> 3 [] c = "4" -> 4
      [] c = "5" -> 5 [] c = "6" -> 6 [] c = "7" -> 7 [] c = "8" -> 8 [] c = "9" -> 9

LowerCh(c) ==
    IF c \in UpperLetters
    THEN LET i == CHOOSE k \in 1..Len(Alphabet) : Ch(Alphabet, k) = c
         IN  Ch(Alphabet, i + 27)
    ELSE c

RECURSIVE Lower(_)
Lower(s) == IF s = "" THEN "" ELSE LowerCh(Ch(s, 1)) \o Lower(SubSeq(s, 2, Len(s)))

\* str.__contains__ : sub in s
Contains(s, sub) ==
    \E i \in 1..(Len(s) - Len(sub) + 1) : SubSeq(s, i, i + Len(sub) - 1) = sub

StartsAt(s, i, sub) == i >= 1 /\ i + Len(sub) - 1 <= Len(s) /\ SubSeq(s, i, i + Len(sub) - 1) = sub

\* int(s[i : i+k]) for a run of k digits
RECURSIVE IntOf(_, _, _)
IntOf(s, i, k) == IF k = 0 THEN 0 ELSE IntOf(s, i, k - 1) * 10 + DigitVal(Ch(s, i + k - 1))

\* s[i : i+k] is made of digits only
AllDigits(s, i, k) == k >= 1 /\ i + k - 1 <= Len(s) /\ \A j \in i..(i + k - 1) : IsDigit(Ch(s, j))

\* \b of Python's re at the gap before position i (1-based)
WordBoundary(s, i) == IsWord(Ch(s, i - 1)) # IsWord(Ch(s, i))

\* first position >= i that does not hold a space (\s* of the patterns)
RECURSIVE SkipSpaces(_, _)
SkipSpaces(s, i) == IF Ch(s, i) = " " THEN SkipSpaces(s, i + 1) ELSE i

Min(S) == CHOOSE x \in S : \A y \in S : x <= y
Max(S) == CHOOSE x \in S : \A y \in S : x >= y

\* f"{n:02d}"
Fmt02(n) == IF n < 10 THEN "0" \o ToString(n) ELSE ToString(n)

\* str.strip() for spaces
RECURSIVE LStrip(_)
LStrip(s) == IF Ch(s, 1) = " " THEN LStrip(SubSeq(s, 2, Len(s))) ELSE s
RECURSIVE RStrip(_)
RStrip(s) == IF Ch(s, Len(s)) = " " THEN RStrip(SubSeq(s, 1, Len(s) - 1)) ELSE s
Strip(s) == LStrip(RStrip(s))

\* re.sub(r"\s+", " ", s).strip()
RECURSIVE CollapseSpaces(_)
CollapseSpaces(s) ==
    IF Len(s) < 2 THEN s
    ELSE IF Ch(s, 1) = " " /\ Ch(s, 2) = " " THEN CollapseSpaces(SubSeq(s, 2, Len(s)))
    ELSE Ch(s, 1) \o CollapseSpaces(SubSeq(s, 2, Len(s)))

normalize_spaces(s) == Strip(CollapseSpaces(s))

\* code point rank of a character, and Python's str "<"
Rank(c) == CHOOSE k \in 1..Len(Alphabet) : Ch(Alphabet, k) = c

RECURSIVE StrLess(_, _)
StrLess(a, b) ==
    IF b = "" THEN FALSE
    ELSE IF a = "" THEN TRUE
    ELSE IF Ch(a, 1) = Ch(b, 1) THEN StrLess(SubSeq(a, 2, Len(a)), SubSeq(b, 2, Len(b)))
    ELSE Rank(Ch(a, 1)) < Rank(Ch(b, 1))

\* sorted(set(S)) for a set of strings
RECURSIVE SortedSeq(_)
SortedSeq(S) ==
    IF S = {} THEN <<>>
    ELSE LET m == CHOOSE x \in S : \A y \in S \ {x} : StrLess(x, y)
         IN  <<m>> \o SortedSeq(S \ {m})

\* os.path.splitext: the extension starts at the last dot, unless the dot leads the name
LastDot(s) == LET D == {i \in 1..Len(s) : Ch(s, i) = "."} IN IF D = {} THEN 0 ELSE Max(D)
SplitStem(s) == IF LastDot(s) > 1 THEN SubSeq(s, 1, LastDot(s) - 1) ELSE s
SplitExt(s) == IF LastDot(s) > 1 THEN SubSeq(s, LastDot(s), Len(s)) ELSE ""

(***************************************************************************)
(* Name parser                                                             *)
(***************************************************************************)
VIDEO_EXTS == {".mp4", ".mkv", ".avi", ".mov", ".wmv", ".flv", ".m4v", ".ts", ".m2ts", ".webm"}
SUB_EXTS == {".srt", ".ass", ".ssa", ".vtt", ".sub", ".idx", ".sup"}

IsVideoName(n) == Lower(SplitExt(n)) \in VIDEO_EXTS
IsSubName(n) == Lower(SplitExt(n)) \in SUB_EXTS

\* safe_filename: none of the characters it replaces is in Alphabet; it strips
safe_filename(n) == Strip(n)

\* (?i)\bS\d{1,2}\s*[-~]\s*S?\d{1,2}\b  (the season-range guard)
SeasonRangeAt(t, i) ==
    /\ WordBoundary(t, i)
    /\ Ch(t, i) \in {"S", "s"}
    /\ \E k \in 1..2 :
        /\ AllDigits(t, i + 1, k)
        /\ LET d == SkipSpaces(t, i + 1 + k)
           IN  /\ Ch(t, d) \in {"-", "~"}
               /\ LET e == SkipSpaces(t, d + 1)
                  IN  \E o \in {0, 1}, k2 \in 1..2 :
                        /\ o = 1 => Ch(t, e) \in {"S", "s"}
                        /\ AllDigits(t, e + o, k2)
                        /\ WordBoundary(t, e + o + k2)

HasSeasonRange(t) == \E i \in 1..Len(t) : SeasonRangeAt(t, i)

\* the last position of the matches of the range pattern that start at i
RangeEnds(t, i) ==
    {SkipSpaces(t, SkipSpaces(t, i + 1 + m[1]) + 1) + m[2] + m[3] - 1 :
        m \in {x \in (1..2) \X {0, 1} \X (1..2) :
                 /\ WordBoundary(t, i)
                 /\ Ch(t, i) \in {"S", "s"}
                 /\ AllDigits(t, i + 1, x[1])
                 /\ Ch(t, SkipSpaces(t, i + 1 + x[1])) \in {"-", "~"}
                 /\ LET e == SkipSpaces(t, SkipSpaces(t, i + 1 + x[1]) + 1)
                    IN  /\ x[2] = 1 => Ch(t, e) \in {"S", "s"}
                        /\ AllDigits(t, e + x[2], x[3])
                        /\ WordBoundary(t, e + x[2] + x[3])}}

\* the positions of t that a match of the range pattern covers
RangeSpan(t) ==
    {p \in 1..Len(t) : \E i \in 1..Len(t) : \E e \in RangeEnds(t, i) : i <= p /\ p <= e}

\* (?i)(?:^|[^A-Za-z0-9])S(\d{1,2})(?:$|[^A-Za-z0-9]) : matches as <<position of S, digits>>
StandaloneS(t) ==
    {<<i, k>> \in (1..Len(t)) \X (1..2) :
        /\ Ch(t, i) \in {"S", "s"}
        /\ ~IsAlnum(Ch(t, i - 1))
        /\ AllDigits(t, i + 1, k)
        /\ ~IsAlnum(Ch(t, i + 1 + k))}

\* (?i)\bSeason\s*(\d{1,2})\b : matches as <<position of the digits, digits>>
SeasonWord(t) ==
    {<<d, k>> \in (1..Len(t)) \X (1..2) :
        \E i \in 1..Len(t) :
            /\ WordBoundary(t, i)
            /\ Lower(Slice(t, i, i + 5)) = "season"
            /\ d >= i + 6 /\ \A j \in (i + 6)..(d - 1) : Ch(t, j) = " "
            /\ AllDigits(t, d, k)
            /\ WordBoundary(t, d + k)}

\* the leftmost match, with the longest digit run at that place (greedy)
FirstMatch(M) ==
    LET i == Min({m[1] : m \in M})
    IN  <<i, Max({m[2] : m \in {x \in M : x[1] = i}})>>

parse_season_from_text(text) ==
    LET t == Strip(text)
    IN  IF t = "" THEN NoneV
        ELSE IF HasSeasonRange(t) THEN NoneV
        ELSE IF StandaloneS(t) # {}
             THEN LET m == FirstMatch(StandaloneS(t)) IN IntOf(t, m[1] + 1, m[2])
        ELSE IF SeasonWord(t) # {}
             THEN LET m == FirstMatch(SeasonWord(t)) IN IntOf(t, m[1], m[2])
        ELSE NoneV

\* SXXEYY_RE = (?i)S(\d{1,2})\s*E(\d{1,3}) : matches as <<position of S, k1, position of the
\* episode digits, k2>>
SxxEyyMatches(t) ==
    {m \in (1..Len(t)) \X (1..2) \X (1..(Len(t) + 1)) \X (1..3) :
        /\ Ch(t, m[1]) \in {"S", "s"}
        /\ AllDigits(t, m[1] + 1, m[2])
        /\ LET e == SkipSpaces(t, m[1] + 1 + m[2])
           IN  /\ Ch(t, e) \in {"E", "e"}
               /\ m[3] = e + 1
        /\ AllDigits(t, m[3], m[4])}

\* the match re.search returns: leftmost, each digit run as long as it can be
SxxEyyFirst(t) ==
    LET M  == SxxEyyMatches(t)
        i  == Min({m[1] : m \in M})
        Mi == {m \in M : m[1] = i}
        k1 == Max({m[2] : m \in Mi})
        Mk == {m \in Mi : m[2] = k1}
        k2 == Max({m[4] : m \in Mk})
    IN  CHOOSE m \in Mk : m[4] = k2

\* _1X02_RE = (?i)\b(\d{1,2})\s*[xX]\s*(\d{1,3})\b
NxMMatches(t) ==
    {m \in (1..Len(t)) \X (1..2) \X (1..(Len(t) + 1)) \X (1..3) :
        /\ WordBoundary(t, m[1])
        /\ AllDigits(t, m[1], m[2])
        /\ LET x == SkipSpaces(t, m[1] + m[2])
           IN  /\ Ch(t, x) \in {"x", "X"}
               /\ m[3] = SkipSpaces(t, x + 1)
        /\ AllDigits(t, m[3], m[4])
        /\ WordBoundary(t, m[3] + m[4])}

NxMFirst(t) ==
    LET M  == NxMMatches(t)
        i  == Min({m[1] : m \in M})
        Mi == {m \in M : m[1] = i}
        k1 == Max({m[2] : m \in Mi})
        Mk == {m \in Mi : m[2] = k1}
        k2 == Max({m[4] : m \in Mk})
    IN  CHOOSE m \in Mk : m[4] = k2

\* _EP_NUM_RE = (?i)\b(?:EP|E)(\d{1,3})\b : matches as <<position of the digits, digits>>
EpNumMatches(t) ==
    {<<d, k>> \in (1..(Len(t) + 1)) \X (1..3) :
        /\ \/ Ch(t, d - 1) \in {"E", "e"} /\ WordBoundary(t, d - 1)
           \/ Lower(Slice(t, d - 2, d - 1)) = "ep" /\ WordBoundary(t, d - 2)
        /\ AllDigits(t, d, k)
        /\ WordBoundary(t, d + k)}

\* ^\s*(\d{1,3})(?!\d) on the (already stripped) stem
LeadingNumber(t) ==
    LET K == {k \in 1..3 : AllDigits(t, 1, k) /\ ~IsDigit(Ch(t, k + 1))}
    IN  IF K = {} THEN NoneV ELSE IntOf(t, 1, Max(K))

\* re.findall(r"(?:^|[\s._\-])0*(\d{1,3})(?=$|[\s._\-])") : the tokens as <<start, length>> of
\* a whole digit run delimited by separators; the value drops the leading zeros
DigitTokens(t) ==
    {<<i, k>> \in (1..Len(t)) \X (1..Len(t)) :
        /\ AllDigits(t, i, k)
        /\ i = 1 \/ IsSep(Ch(t, i - 1))
        /\ i + k > Len(t) \/ IsSep(Ch(t, i + k))}

RECURSIVE LeadingZeros(_, _, _)
LeadingZeros(t, i, k) == IF k > 1 /\ Ch(t, i) = "0" THEN 1 + LeadingZeros(t, i + 1, k - 1) ELSE 0

\* the values findall yields from a token, in range 1..200 (a run whose significant part is
\* longer than three digits is not matched)
TokenValue(t, tok) ==
    LET z == LeadingZeros(t, tok[1], tok[2])
        k == tok[2] - z
    IN  IF z = tok[2] - 1 /\ Ch(t, tok[1] + z) = "0" THEN 0
        ELSE IF k > 3 THEN NoneV
        ELSE IntOf(t, tok[1] + z, k)

StandaloneNumber(t) ==
    LET T == {tok \in DigitTokens(t) : TokenValue(t, tok) >= 1 /\ TokenValue(t, tok) <= 200}
    IN  IF T = {} THEN NoneV
        ELSE LET i == Min({tok[1] : tok \in T})
             IN  TokenValue(t, CHOOSE tok \in T : tok[1] = i)

\* _RES_RE = (?i)\b(4320|2160|1440|1080|720|576|540|480)p\b : position of the first match
ResNumbers == {"4320", "2160", "1440", "1080", "720", "576", "540", "480"}

ResMatches(t) ==
    {<<i, k>> \in (1..Len(t)) \X {3, 4} :
        /\ WordBoundary(t, i)
        /\ Slice(t, i, i + k - 1) \in ResNumbers
        /\ Ch(t, i + k) \in {"p", "P"}
        /\ WordBoundary(t, i + k + 1)}

extract_resolution(text) ==
    IF text = "" THEN ""
    ELSE IF ResMatches(text) # {}
         THEN LET m == FirstMatch(ResMatches(text)) IN SubSeq(text, m[1], m[1] + m[2] - 1) \o "p"
    ELSE IF Contains(Lower(text), "8k") THEN "4320p"
    ELSE IF Contains(Lower(text), "4k") \/ Contains(Lower(text), "uhd") THEN "2160p"
    ELSE ""

\* _quality_tokens, for the tokens extract_resolution can read back (4k, 2160p, 1080p, 720p);
\* the other tokens of the tail never reach a name
QualityPats == <<"4k", "2160p", "1080p", "720p">>

HasWordToken(t, tok) ==
    \E i \in 1..Len(t) :
        StartsAt(t, i, tok) /\ WordBoundary(t, i) /\ WordBoundary(t, i + Len(tok))

RECURSIVE JoinTokens(_, _, _)
JoinTokens(t, i, acc) ==
    IF i > Len(QualityPats) THEN acc
    ELSE IF HasWordToken(t, QualityPats[i])
         THEN JoinTokens(t, i + 1, IF acc = "" THEN QualityPats[i] ELSE acc \o " " \o QualityPats[i])
    ELSE JoinTokens(t, i + 1, acc)

quality_tokens(text) == JoinTokens(Lower(text), 1, "")

\* the patterns of parse_episode_from_name in their order, on the normalised stem; hint is
\* the season read from the text, tail the quality tokens
ParseEpisode(stem2, hint, tail) ==
    IF SxxEyyMatches(stem2) # {}
    THEN LET m == SxxEyyFirst(stem2)
         IN  [s |-> IntOf(stem2, m[1] + 1, m[2]), ep |-> IntOf(stem2, m[3], m[4]),
              already |-> TRUE, suffix |-> tail]
    ELSE IF NxMMatches(stem2) # {}
    THEN LET m == NxMFirst(stem2)
         IN  [s |-> IntOf(stem2, m[1], m[2]), ep |-> IntOf(stem2, m[3], m[4]),
              already |-> TRUE, suffix |-> tail]
    ELSE IF EpNumMatches(stem2) # {}
    THEN LET m == FirstMatch(EpNumMatches(stem2))
         IN  [s |-> hint, ep |-> IntOf(stem2, m[1], m[2]), already |-> FALSE, suffix |-> tail]
    ELSE IF ~HasSeasonRange(stem2) /\ LeadingNumber(stem2) >= 1 /\ LeadingNumber(stem2) <= 200
    THEN [s |-> hint, ep |-> LeadingNumber(stem2), already |-> FALSE, suffix |-> tail]
    ELSE IF ~HasSeasonRange(stem2) /\ StandaloneNumber(stem2) # NoneV
    THEN [s |-> hint, ep |-> StandaloneNumber(stem2), already |-> FALSE, suffix |-> tail]
    ELSE [s |-> hint, ep |-> NoneV, already |-> FALSE, suffix |-> tail]

\* the positions of the stem whose digits the episode pe was read from: group 2 of the
\* SxxEyy and 1x02 patterns, group 1 of the E pattern, the leading number, or the first
\* standalone number
Positions(i, k) == i..(i + k - 1)

StandaloneToken(t) ==
    LET T == {tok \in DigitTokens(t) : TokenValue(t, tok) >= 1 /\ TokenValue(t, tok) <= 200}
    IN  CHOOSE tok \in T : tok[1] = Min({x[1] : x \in T})

EpisodeDigits(stem2, pe) ==
    IF pe.ep = NoneV THEN {}
    ELSE IF SxxEyyMatches(stem2) # {}
    THEN Positions(SxxEyyFirst(stem2)[3], SxxEyyFirst(stem2)[4])
    ELSE IF NxMMatches(stem2) # {}
    THEN Positions(NxMFirst(stem2)[3], NxMFirst(stem2)[4])
    ELSE IF EpNumMatches(stem2) # {}
    THEN Positions(FirstMatch(EpNumMatches(stem2))[1], FirstMatch(EpNumMatches(stem2))[2])
    ELSE IF LeadingNumber(stem2) >= 1 /\ LeadingNumber(stem2) <= 200
    THEN Positions(1, Max({k \in 1..3 : AllDigits(stem2, 1, k)}))
    ELSE Positions(StandaloneToken(stem2)[1], StandaloneToken(stem2)[2])

ParseStem(stem2) == ParseEpisode(stem2, parse_season_from_text(stem2), quality_tokens(stem2))

\* the stem the patterns are applied to (lines 729-742)
Stem2(name) == normalize_spaces(SplitStem(Strip(name)))

\* parse_episode_from_name -> [s, ep, already, suffix]
parse_episode_from_name(name) ==
    IF Strip(name) = "" THEN [s |-> NoneV, ep |-> NoneV, already |-> FALSE, suffix |-> ""]
    ELSE ParseStem(Stem2(name))

\* _YEAR_HINT_RE = (19\d{2}|20\d{2}) : extract_year_hint returns the first match
YearAt(t, i) == Slice(t, i, i + 1) \in {"19", "20"} /\ AllDigits(t, i, 4)

extract_year_hint(text) ==
    LET Y == {i \in 1..Len(text) : YearAt(text, i)}
    IN  IF Y = {} THEN NoneV ELSE IntOf(text, Min(Y), 4)

\* DEFAULT_SKIP_DIR_REGEX, searched with re.IGNORECASE, then the "contains" fallback: the
\* alternatives that can occur in a name over Alphabet
SkipWords == {"promo", "sample", "extra", "poster", "thumbs", "movie"}

should_skip_misc_folder(name) == \E w \in SkipWords : Contains(Lower(name), w)

\* JUNK_MARKERS: the ASCII ones that can occur over Alphabet
JUNK_MARKERS == {"www.", "telegram", "t.me"}

contains_junk_marker(name) == \E m \in JUNK_MARKERS : Contains(Lower(name), m)

\* SUBTITLE_DIR_NAMES, the names written with the characters of Alphabet
SUBTITLE_DIR_NAMES == {"subs", "sub", "subtitle", "subtitles"}
is_subtitle_dir_name(name) == Lower(Strip(name)) \in SUBTITLE_DIR_NAMES

AD_DELETE_EXTS == {".url", ".lnk", ".html", ".htm", ".pdf", ".doc", ".docx", ".ppt",
                   ".pptx", ".xls", ".xlsx"}

\* is_season_container_folder: (?i)\bS\d{1,2}\s*-\s*S\d{1,2}\b
is_season_container_folder(name) ==
    \E i \in 1..Len(name) :
        /\ WordBoundary(name, i)
        /\ Ch(name, i) \in {"S", "s"}
        /\ \E k \in 1..2 :
            /\ AllDigits(name, i + 1, k)
            /\ LET d == SkipSpaces(name, i + 1 + k)
               IN  /\ Ch(name, d) = "-"
                   /\ LET e == SkipSpaces(name, d + 1)
                      IN  \E k2 \in 1..2 :
                            /\ Ch(name, e) \in {"S", "s"}
                            /\ AllDigits(name, e + 1, k2)
                            /\ WordBoundary(name, e + 1 + k2)

looks_like_show_folder_name(name0) ==
    LET name == Strip(name0)
    IN  IF name = "" THEN FALSE
        ELSE IF Len(name) = 4 /\ Slice(name, 1, 2) = "20" /\ AllDigits(name, 1, 4) THEN FALSE
        ELSE IF parse_season_from_text(name) # NoneV THEN FALSE
        ELSE IF should_skip_misc_folder(name) THEN FALSE
        ELSE extract_year_hint(name) # NoneV

\* season_folder_name with the default format "S{season:02d}"
season_folder_name(season) == IF season = 0 THEN "Specials" ELSE "S" \o Fmt02(season)

\* build_new_video_name
build_new_video_name(series, season, episode, old_name, suffix) ==
    LET base0 == series \o " - S" \o Fmt02(season) \o "E" \o Fmt02(episode)
        res   == extract_resolution(old_name \o " " \o suffix)
        base  == IF res # "" THEN base0 \o " - " \o res ELSE base0
    IN  safe_filename(normalize_spaces(base)) \o SplitExt(old_name)

\* needs_series_prefix_for_sxxeyy: a bare SxxEyy / NxM name without the series title
needs_series_prefix_for_sxxeyy(filename, series_name) ==
    LET stem2 == Strip(SplitStem(filename))
    IN  IF filename = "" \/ series_name = "" THEN FALSE
        ELSE IF Contains(Lower(stem2), Lower(series_name)) THEN FALSE
        ELSE \/ \E m \in SxxEyyMatches(stem2) : m[1] = 1 /\ WordBoundary(stem2, m[3] + m[4])
             \/ \E k1 \in 1..2, k2 \in 1..3 :
                    /\ AllDigits(stem2, 1, k1)
                    /\ LET x == SkipSpaces(stem2, 1 + k1)
                       IN  /\ Ch(stem2, x) \in {"x", "X"}
                           /\ AllDigits(stem2, SkipSpaces(stem2, x + 1), k2)
                           /\ WordBoundary(stem2, SkipSpaces(stem2, x + 1) + k2)

\* normalize_quality_tail, for the tokens that can follow SxxEyy in a name of the model:
\* "NNNNP" -> "NNNNp", "4k" -> "4K"; the other tokens are kept, spaces are collapsed
RECURSIVE LowerResP(_, _)
LowerResP(t, i) ==
    IF i > Len(t) THEN ""
    ELSE IF /\ Ch(t, i) = "P" /\ WordBoundary(t, i + 1)
            /\ \E k \in {3, 4} : AllDigits(t, i - k, k) /\ WordBoundary(t, i - k)
         THEN "p" \o LowerResP(t, i + 1)
    ELSE IF Ch(t, i) = "k" /\ Ch(t, i - 1) = "4" /\ ~IsAlnum(Ch(t, i - 2)) /\ ~IsAlnum(Ch(t, i + 1))
         THEN "K" \o LowerResP(t, i + 1)
    ELSE Ch(t, i) \o LowerResP(t, i + 1)

normalize_quality_tail(text) == IF text = "" THEN "" ELSE normalize_spaces(LowerResP(text, 1))

\* build_prefixed_sxxeyy_name: '<series> - SxxEyy<what followed SxxEyy>.ext'
build_prefixed_sxxeyy_name(series_name, season, episode, old_filename) ==
    LET old_base2 == Strip(SplitStem(old_filename))
        rem0 == IF SxxEyyMatches(old_base2) # {}
                THEN LET m == SxxEyyFirst(old_base2) IN Slice(old_base2, m[3] + m[4], Len(old_base2))
                ELSE ""
        rem1 == normalize_quality_tail(RStrip(rem0))
        rem2 == IF rem1 # "" /\ ~IsSep(Ch(rem1, 1)) THEN " - " \o rem1 ELSE rem1
    IN  safe_filename(normalize_spaces(series_name \o " - S" \o Fmt02(season) \o "E" \o Fmt02(episode) \o rem2))
            \o SplitExt(old_filename)

\* re.split on the separator class [\s._\-\[\](){}]+ : the tokens of a subtitle stem
IsTokSep(c) == c \in {" ", ".", "_", "-", "(", ")"}

RECURSIVE Tokens(_, _, _)
Tokens(t, i, cur) ==
    IF i > Len(t) THEN (IF cur = "" THEN <<>> ELSE <<cur>>)
    ELSE IF IsTokSep(Ch(t, i))
         THEN (IF cur = "" THEN <<>> ELSE <<cur>>) \o Tokens(t, i + 1, "")
    ELSE Tokens(t, i + 1, cur \o Ch(t, i))

\* _normalize_lang_token: the mapping table, then COMMON_LANGS
COMMON_LANGS == {"en", "zh", "ja", "ko", "fr", "de", "es", "it", "ru", "pt", "ar", "nl", "sv", "no",
                 "da", "fi", "pl", "cs", "hu", "tr", "th", "vi", "id", "ms", "he", "el", "uk", "ro",
                 "bg", "hr", "sr", "sk", "sl", "et", "lv", "lt", "fa", "ur"}

normalize_lang_token(tok) ==
    LET t == Lower(tok)
    IN  CASE t \in {"en", "eng"} -> "en"
          [] t \in {"chs", "sc", "zhcn", "gb"} -> "chs"
          [] t \in {"cht", "tc", "zhtw", "big5"} -> "cht"
          [] t \in {"zh", "chi", "zho"} -> "zh"
          [] t \in {"ja", "jpn", "jp"} -> "ja"
          [] t \in {"ko", "kor", "kr"} -> "ko"
          [] t \in {"es", "spa"} -> "es"
          [] t \in {"fr", "fra"} -> "fr"
          [] t \in {"de", "deu"} -> "de"
          [] t \in {"it", "ita"} -> "it"
          [] t \in {"ru", "rus"} -> "ru"
          [] t \in {"pt", "por"} -> "pt"
          [] t = "ptbr" -> "pt-br"
          [] t \in {"ar", "ara"} -> "ar"
          [] OTHER -> IF t \in COMMON_LANGS THEN t ELSE ""

Range(s) == {s[i] : i \in 1..Len(s)}

RECURSIVE FirstLang(_, _)
FirstLang(toks, i) ==
    IF i > Len(toks) THEN ""
    ELSE IF normalize_lang_token(toks[i]) # "" THEN normalize_lang_token(toks[i])
    ELSE FirstLang(toks, i + 1)

\* the word w, with "_" read as "-", stands in low between two non-alphanumerics
HasLangWord(low, w) ==
    \E i \in 1..Len(low) :
        /\ i + Len(w) - 1 <= Len(low)
        /\ \A j \in 1..Len(w) :
               (IF Ch(low, i + j - 1) = "_" THEN "-" ELSE Ch(low, i + j - 1)) = Ch(w, j)
        /\ ~IsAlnum(Ch(low, i - 1)) /\ ~IsAlnum(Ch(low, i + Len(w)))

\* the language and the flags of a stem base, of lower case low and of tokens LT
LangAndFlags(base, low, LT) ==
    [lang |-> IF Contains(base, "chs") \/ Contains(base, "sc") THEN "chs"
              ELSE IF Contains(base, "cht") \/ Contains(base, "tc") THEN "cht"
              ELSE IF HasLangWord(low, "zh-hant") \/ HasLangWord(low, "zh-tw") THEN "cht"
              ELSE IF HasLangWord(low, "zh-hans") \/ HasLangWord(low, "zh-cn") THEN "chs"
              ELSE IF HasLangWord(low, "pt-br") THEN "pt-br"
              ELSE FirstLang(Tokens(base, 1, ""), 1),
     forced |-> Contains(low, "forc"),
     sdh |-> "sdh" \in LT \/ "cc" \in LT \/ "hi" \in LT \/ Contains(low, "hearing")]

\* _extract_subtitle_lang_and_flags -> [lang, forced, sdh]
extract_subtitle_lang_and_flags(filename) ==
    LangAndFlags(SplitStem(filename), Lower(SplitStem(filename)),
                 Range(Tokens(Lower(SplitStem(filename)), 1, "")))

\* the new name of a sidecar of extension ext, language and flags lf
SidecarName(video_stem, ext, lf) ==
    IF ext \notin SUB_EXTS THEN video_stem \o ext
    ELSE video_stem
           \o (IF lf.lang # "" THEN "." \o lf.lang ELSE "")
           \o (IF lf.forced THEN ".forced" ELSE "")
           \o (IF lf.sdh THEN ".sdh" ELSE "")
           \o ext

\* build_new_sidecar_name
build_new_sidecar_name(video_stem, old_sidecar_name) ==
    SidecarName(video_stem, Lower(SplitExt(old_sidecar_name)),
                extract_subtitle_lang_and_flags(old_sidecar_name))

\* related_sidecars: the subtitle files of a listing that correlate with a video, sorted
related_sidecars(entries, video_name, season, episode) ==
    LET vstem == Lower(SplitStem(video_name))
        se    == "s" \o Fmt02(season) \o "e" \o Fmt02(episode)
        e2    == "e" \o Fmt02(episode)
        n2    == Fmt02(episode)
        Rel(name) ==
            LET stem == Lower(SplitStem(name))
            IN  \/ stem \in {vstem, se, e2, n2}
                \/ Contains(stem, se) \/ Contains(stem, e2)
                \/ LET t == LStrip(stem) IN StartsAt(t, 1, n2) /\ WordBoundary(t, 1 + Len(n2))
    IN  SortedSeq({e.name : e \in {x \in entries : ~x.is_dir /\ IsSubName(x.name) /\ Rel(x.name)}})

(***************************************************************************)
(* Query builder and metadata resolver                                     *)
(***************************************************************************)
\* the \b-delimited tags clean_series_query strips (re.I), as far as they are plain words
QueryWordTags == {"2160p", "1080p", "720p", "480p", "4k", "8k", "webrip", "bluray", "bdrip",
                  "hdrip", "remux", "x264", "x265", "hevc", "avc", "dv", "hdr", "aac", "truehd",
                  "dts", "atvp", "nf", "amzn", "hmax", "dsnp", "hulu", "10bit", "8bit", "proper",
                  "repack", "extended", "uncut"}

\* the tags of the last group, stripped wherever they occur (no \b in the source)
QuerySubstrTags == {"ova", "sp"}

\* length of the tag that is removed at position i (0: none)
TagLenAt(t, i) ==
    LET W == {w \in QueryWordTags :
                 /\ Lower(Slice(t, i, i + Len(w) - 1)) = w
                 /\ WordBoundary(t, i) /\ WordBoundary(t, i + Len(w))}
    IN  IF W = {} THEN 0 ELSE Max({Len(w) : w \in W})

RECURSIVE StripWordTags(_, _)
StripWordTags(t, i) ==
    IF i > Len(t) THEN ""
    ELSE IF TagLenAt(t, i) > 0 THEN " " \o StripWordTags(t, i + TagLenAt(t, i))
    ELSE Ch(t, i) \o StripWordTags(t, i + 1)

SubstrTagLenAt(t, i) ==
    LET W == {w \in QuerySubstrTags : Lower(Slice(t, i, i + Len(w) - 1)) = w}
    IN  IF W = {} THEN 0 ELSE Max({Len(w) : w \in W})

RECURSIVE StripSubstrTags(_, _)
StripSubstrTags(t, i) ==
    IF i > Len(t) THEN ""
    ELSE IF SubstrTagLenAt(t, i) > 0 THEN " " \o StripSubstrTags(t, i + SubstrTagLenAt(t, i))
    ELSE Ch(t, i) \o StripSubstrTags(t, i + 1)

\* \s*(?:S\d{1,2}-S\d{1,2})\s* -> " " : the season bundle of a folder name
BundleLenAt(t, i) ==
    LET K == {<<k1, k2>> \in (1..2) \X (1..2) :
                 /\ Ch(t, i) \in {"S", "s"} /\ AllDigits(t, i + 1, k1)
                 /\ Ch(t, i + 1 + k1) = "-" /\ Ch(t, i + 2 + k1) \in {"S", "s"}
                 /\ AllDigits(t, i + 3 + k1, k2)}
    IN  IF K = {} THEN 0
        ELSE LET k1 == Max({k[1] : k \in K})
             IN  3 + k1 + Max({k[2] : k \in {x \in K : x[1] = k1}})

RECURSIVE StripBundles(_, _)
StripBundles(t, i) ==
    IF i > Len(t) THEN ""
    ELSE IF BundleLenAt(t, i) > 0 THEN " " \o StripBundles(t, SkipSpaces(t, i + BundleLenAt(t, i)))
    ELSE IF Ch(t, i) = " " /\ BundleLenAt(t, SkipSpaces(t, i)) > 0 THEN StripBundles(t, SkipSpaces(t, i))
    ELSE Ch(t, i) \o StripBundles(t, i + 1)

\* (?<=\D)\d{1,2}\s*[-~]\s*\d{1,2}\s*$ -> " " : a numeric range at the end of the name
StripTrailingRange(t) ==
    LET R == {i \in 2..Len(t) :
                 /\ ~IsDigit(Ch(t, i - 1))
                 /\ \E k1 \in 1..2, k2 \in 1..2 :
                       /\ AllDigits(t, i, k1)
                       /\ LET d == SkipSpaces(t, i + k1)
                              e == SkipSpaces(t, d + 1)
                          IN  /\ Ch(t, d) \in {"-", "~"}
                              /\ AllDigits(t, e, k2)
                              /\ SkipSpaces(t, e + k2) > Len(t)}
    IN  IF R = {} THEN t ELSE Slice(t, 1, Min(R) - 1) \o " "

\* \s*[\(]?\s*(19\d{2}|20\d{2})\s*[\)]?\s*$ -> "" : a year at the end of the name
StripTrailingYear(t) ==
    LET Y == {i \in 1..Len(t) :
                 /\ YearAt(t, i)
                 /\ LET a == SkipSpaces(t, i + 4)
                        b == IF Ch(t, a) = ")" THEN SkipSpaces(t, a + 1) ELSE a
                    IN  b > Len(t)}
    IN  IF Y = {} THEN t
        ELSE LET i  == Min(Y)
                 p1 == RStrip(Slice(t, 1, i - 1))
                 p2 == IF Ch(p1, Len(p1)) = "(" THEN Slice(p1, 1, Len(p1) - 1) ELSE p1
             IN  RStrip(p2)

\* str.strip("-_. ")
RECURSIVE StripPunct(_)
StripPunct(t) ==
    IF t = "" THEN ""
    ELSE IF IsSep(Ch(t, 1)) THEN StripPunct(Slice(t, 2, Len(t)))
    ELSE IF IsSep(Ch(t, Len(t))) THEN StripPunct(Slice(t, 1, Len(t) - 1))
    ELSE t

clean_series_query(folder_name) ==
    LET s1 == normalize_spaces(folder_name)
        s2 == StripBundles(s1, 1)
        s3 == StripSubstrTags(StripWordTags(StripTrailingRange(s2), 1), 1)
        s4 == StripTrailingYear(s3)
    IN  StripPunct(normalize_spaces(s4))

is_bad_tmdb_query(q) ==
    LET q2 == normalize_spaces(q)
        l  == Lower(q2)
        n  == Len(q2)
    IN  \/ n <= 1
        \/ Ch(l, 1) = "s" /\ n \in 2..3 /\ AllDigits(l, 2, n - 1)
        \/ Slice(l, 1, 6) = "season" /\ \E k \in 1..2 : AllDigits(l, n - k + 1, k) /\ SkipSpaces(l, 7) = n - k + 1
        \/ Ch(l, 1) = "e" /\ n \in 2..4 /\ AllDigits(l, 2, n - 1)
        \/ \E m \in SxxEyyMatches(l) : m[1] = 1 /\ m[3] = m[2] + 3 /\ m[3] + m[4] = n + 1
        \/ n <= 4 /\ AllDigits(q2, 1, n)

\* re.sub(r"[\[\(].*?[\]\)]", " ", stem) : every parenthesised group becomes a space
RECURSIVE StripParens(_, _)
StripParens(t, i) ==
    IF i > Len(t) THEN ""
    ELSE IF Ch(t, i) = "(" /\ \E j \in (i + 1)..Len(t) : Ch(t, j) = ")"
         THEN " " \o StripParens(t, Min({j \in (i + 1)..Len(t) : Ch(t, j) = ")"}) + 1)
    ELSE Ch(t, i) \o StripParens(t, i + 1)

\* start of the first episode marker of extract_english_title_from_filename:
\* S\d{1,2}\s*E\d{1,3} | \d{1,2}\s*[xX]\s*\d{1,3} | (?:^|[\s._\-])E\d{1,3}\b
MarkerStarts(t) ==
    {i \in 1..Len(t) :
        \/ \E m \in SxxEyyMatches(t) : m[1] = i
        \/ \E k \in 1..2 : /\ AllDigits(t, i, k)
                           /\ Ch(t, SkipSpaces(t, i + k)) \in {"x", "X"}
                           /\ IsDigit(Ch(t, SkipSpaces(t, SkipSpaces(t, i + k) + 1)))
        \/ /\ Ch(t, i) \in {"E", "e"} /\ i = 1
           /\ \E k \in 1..3 : AllDigits(t, i + 1, k) /\ WordBoundary(t, i + 1 + k)
        \/ /\ IsSep(Ch(t, i)) /\ Ch(t, i + 1) \in {"E", "e"}
           /\ \E k \in 1..3 : AllDigits(t, i + 2, k) /\ WordBoundary(t, i + 2 + k)}

TitleNoise == {"720p", "1080p", "2160p", "4k", "webrip", "hdr", "dv", "dovi", "atmos", "ddp", "aac",
               "dts", "truehd", "x264", "x265", "h264", "h265"}

NoiseLenAt(t, i) ==
    LET W == {w \in TitleNoise : /\ Lower(Slice(t, i, i + Len(w) - 1)) = w
                                 /\ WordBoundary(t, i) /\ WordBoundary(t, i + Len(w))}
             \cup {w \in {"year"} : YearAt(t, i) /\ WordBoundary(t, i) /\ WordBoundary(t, i + 4)}
    IN  IF W = {} THEN 0 ELSE Max({Len(w) : w \in W})

RECURSIVE StripNoise(_, _)
StripNoise(t, i) ==
    IF i > Len(t) THEN ""
    ELSE IF NoiseLenAt(t, i) > 0 THEN " " \o StripNoise(t, i + NoiseLenAt(t, i))
    ELSE Ch(t, i) \o StripNoise(t, i + 1)

RECURSIVE PunctToSpace(_, _)
PunctToSpace(t, i) ==
    IF i > Len(t) THEN ""
    ELSE (IF IsAlnum(Ch(t, i)) THEN Ch(t, i) ELSE " ") \o PunctToSpace(t, i + 1)

RECURSIVE DotsToSpace(_, _)
DotsToSpace(t, i) ==
    IF i > Len(t) THEN ""
    ELSE (IF Ch(t, i) \in {".", "_", "-"} THEN " " ELSE Ch(t, i)) \o DotsToSpace(t, i + 1)

\* extract_english_title_from_filename ("" for None)
BeforeMarker(st0) ==
    IF MarkerStarts(st0) = {} THEN st0 ELSE Slice(st0, 1, Min(MarkerStarts(st0)) - 1)

EnglishTitle(st2, asc) ==
    IF st2 = "" \/ asc = "" THEN ""
    ELSE IF Len(asc) >= 3 THEN asc ELSE ""

EnglishOf(st2) == EnglishTitle(st2, normalize_spaces(PunctToSpace(st2, 1)))

extract_english_title_from_filename(name) ==
    EnglishOf(normalize_spaces(
                  StripNoise(DotsToSpace(BeforeMarker(StripParens(SplitStem(name), 1)), 1), 1)))

\* levenshtein_ratio: the edit distance, by the source's single-row dynamic programme
RECURSIVE LevRow(_, _, _, _, _, _)
LevRow(a, b, i, j, prev, dp) ==
    IF j > Len(b) THEN dp
    ELSE LET cost == IF Ch(a, i) = Ch(b, j) THEN 0 ELSE 1
             v    == Min({dp[j + 1] + 1, dp[j] + 1, prev + cost})
         IN  IF v >= 0 THEN LevRow(a, b, i, j + 1, dp[j + 1], [dp EXCEPT ![j + 1] = v]) ELSE dp

RECURSIVE LevRows(_, _, _, _)
LevRows(a, b, i, dp) ==
    IF i > Len(a) THEN dp
    ELSE LevRows(a, b, i + 1, LevRow(a, b, i, 1, dp[1], [dp EXCEPT ![1] = i]))

LevDist(a0, b0) ==
    LET a == Lower(a0)
        b == Lower(b0)
    IN  LevRows(a, b, 1, [j \in 1..(Len(b) + 1) |-> j - 1])[Len(b) + 1]

\* levenshtein_ratio(a, b) >= num/100, in integers
LevRatioAtLeast(a, b, num) ==
    IF a = "" /\ b = "" THEN TRUE
    ELSE IF a = "" \/ b = "" THEN FALSE
    ELSE 100 * (Max({Len(a), Len(b)}) - LevDist(a, b)) >= num * Max({Len(a), Len(b)})

\* re.sub(r"(19\d{2}|20\d{2})", "", t)
RECURSIVE StripYears(_, _)
StripYears(t, i) ==
    IF i > Len(t) THEN ""
    ELSE IF YearAt(t, i) THEN StripYears(t, i + 4)
    ELSE Ch(t, i) \o StripYears(t, i + 1)

RECURSIVE KeepAlnum(_, _)
KeepAlnum(t, i) ==
    IF i > Len(t) THEN ""
    ELSE (IF IsAlnum(Ch(t, i)) THEN Ch(t, i) ELSE "") \o KeepAlnum(t, i + 1)

\* the strings "complete" etc. that _norm_same_show drops
RECURSIVE StripComplete(_, _)
StripComplete(t, i) ==
    IF i > Len(t) THEN ""
    ELSE IF Lower(Slice(t, i, i + 7)) = "complete" THEN StripComplete(t, i + 8)
    ELSE Ch(t, i) \o StripComplete(t, i + 1)

norm_same_show(t) ==
    StripYears(KeepAlnum(Lower(StripComplete(StripYears(clean_series_query(t), 1), 1)), 1), 1)

\* the normalised names c and p are equal, or similar with a ratio of at least 0.93
SameShowNorm(c, p) ==
    IF c = "" \/ p = "" THEN FALSE
    ELSE IF c = p THEN TRUE
    \* a ratio of 0.93 with a distance of at least 1 needs 15 characters
    ELSE IF Len(c) < 15 /\ Len(p) < 15 THEN FALSE
    ELSE LevRatioAtLeast(c, p, 93)

is_same_show_container_folder(child_name, parent_title) ==
    SameShowNorm(norm_same_show(child_name), norm_same_show(parent_title))

(***************************************************************************)
(* State                                                                   *)
(***************************************************************************)
VARIABLES
    fs,            \* the AList tree: a set of [path, dir, id], a path being a sequence of names
    listOrder,     \* the order in which /api/fs/list returns the entries of a directory
    on_conflict,   \* env ON_CONFLICT: "suffix" or "skip"
    protect_sxxeyy, \* env PROTECT_SXXEYY: TRUE for "1", FALSE for its default "0"
    dry_run,       \* args.dry_run of the current run
    resume,        \* args.resume of the current run
    run,           \* number of runs of main started so far
    mpc,           \* position of main: "idle", "loop", "finished", "undone"
    series_paths,  \* main: the series folders of the run
    idx,           \* main: position of the series loop in series_paths
    done_set,      \* main: load_state(state_file)
    stateLedger,   \* the resume ledger state.jsonl
    undoLedger,    \* the undo ledger undo-<ts>.jsonl of the current run
    cache,         \* the resolver cache (tmdb_cache.json)
    stop,          \* LogHub._stop_event
    stack,         \* the activations of process_series_folder, innermost last
    log,           \* the decisions appended to the run log
    calls,         \* history: the mutating AList calls the current run executed
    collisions,    \* history: the rename/move calls issued onto a name that existed
    fs0,           \* history: the tree at the start of the current run
    begun,         \* history: the calls of process_series_folder, over all runs
    stopped,       \* history: the top-level series a stop request interrupted in this run
    raised,        \* history: the top-level series whose processing raised in this run
    prev,          \* history: what the previous run left (its mode, ledger entries, calls)
    arg,           \* the input of a function that is studied on its own
    res,           \* its result
    seq,           \* LogHub._seq
    events,        \* LogHub._events: the ids of the retained events, in buffer order
    emitting,      \* per thread: the id its emit has taken and not pushed yet, 0 if none
    lastId,        \* the web page: the largest id it has seen
    shown          \* the web page: the ids of the events it has received

vars == <<fs, listOrder, on_conflict, dry_run, resume, run, mpc, series_paths, idx, done_set,
          stateLedger, undoLedger, cache, stop, stack, log, calls, collisions, fs0, begun,
          stopped, raised, prev, protect_sxxeyy, arg, res, seq, events, emitting, lastId,
          shown>>

(***************************************************************************)
(* Paths and the AList collaborator (AlistClient)                          *)
(***************************************************************************)
\* a normalised path "/a/b" is the sequence <<"a", "b">>; norm_path is the identity on these
join_path(dir_path, name) == Append(dir_path, name)

split_path(p) ==
    IF p = <<>> THEN [parent |-> <<>>, base |-> ""]
    ELSE [parent |-> SubSeq(p, 1, Len(p) - 1), base |-> p[Len(p)]]

IsPrefix(p, q) == Len(p) <= Len(q) /\ SubSeq(q, 1, Len(p)) = p

Exists(t, p) == \E n \in t : n.path = p
IsDir(t, p) == \E n \in t : n.path = p /\ n.dir
Kids(t, p) == {n \in t : Len(n.path) = Len(p) + 1 /\ IsPrefix(p, n.path)}
KidNames(t, p) == {n.path[Len(n.path)] : n \in Kids(t, p)}

Reverse(s) == [i \in 1..Len(s) |-> s[Len(s) + 1 - i]]

Names(entries) == [i \in 1..Len(entries) |-> entries[i].name]

\* AlistClient.list_dir: the entries of a directory, in the order the server returns them
list_dir(t, p) ==
    LET asc == SortedSeq(KidNames(t, p))
        ord == IF listOrder = "asc" THEN asc ELSE Reverse(asc)
    IN  [i \in 1..Len(ord) |-> [name |-> ord[i], is_dir |-> IsDir(t, join_path(p, ord[i]))]]

\* the item at path from, with everything below it, now at path to
Rebase(t, from, to) ==
    {IF IsPrefix(from, n.path)
     THEN [n EXCEPT !.path = to \o SubSeq(n.path, Len(from) + 1, Len(n.path))]
     ELSE n : n \in t}

\* the effects of a step are threaded through a record w: the tree, the ledgers, the log and
\* whether an exception is in flight (every operation is skipped while one is)
Raise(w) == [w EXCEPT !.exc = TRUE]
Ret(w, v) == [w EXCEPT !.ret = v]
Log(w, e) == [w EXCEPT !.log = Append(@, e)]

\* the answer of AList to a call on an item that is not there ("object not found"): the
\* call raises, and the error names the call and the path
NotFound(op, path) == [t |-> "not_found_call", op |-> op, path |-> path]

\* AlistClient.rename: AList answers with an error when the item is missing or the new name
\* is taken by a sibling
client_rename(w, path, new_name) ==
    LET sp     == split_path(path)
        target == join_path(sp.parent, new_name)
    IN  IF w.exc THEN w
        ELSE IF ~Exists(w.fs, path) THEN Raise(Log(w, NotFound("rename", path)))
        ELSE IF target = path THEN w
        ELSE IF Exists(w.fs, target)
             THEN Raise([w EXCEPT !.coll = @ \cup {[op |-> "rename", dir |-> sp.parent,
                                                     name |-> new_name, step |-> w.step]}])
        ELSE [w EXCEPT !.fs = Rebase(@, path, target),
                       !.calls = Append(@, [op |-> "rename", parent |-> sp.parent,
                                            old |-> sp.base, new |-> new_name,
                                            step |-> w.step])]

\* AlistClient.move of one name
client_move(w, src_dir, dst_dir, name) ==
    LET src    == join_path(src_dir, name)
        target == join_path(dst_dir, name)
    IN  IF w.exc THEN w
        ELSE IF ~Exists(w.fs, src) THEN Raise(Log(w, NotFound("move", src)))
        ELSE IF ~IsDir(w.fs, dst_dir) \/ IsPrefix(src, dst_dir) THEN Raise(w)
        ELSE IF Exists(w.fs, target)
             THEN Raise([w EXCEPT !.coll = @ \cup {[op |-> "move", dir |-> dst_dir,
                                                     name |-> name, step |-> w.step]}])
        ELSE [w EXCEPT !.fs = Rebase(@, src, target),
                       !.calls = Append(@, [op |-> "move", src_dir |-> src_dir,
                                            dst_dir |-> dst_dir, names |-> <<name>>,
                                            step |-> w.step])]

\* AlistClient.mkdir
client_mkdir(w, path) ==
    IF w.exc THEN w
    ELSE IF IsDir(w.fs, path) THEN w
    ELSE IF Exists(w.fs, path) THEN Raise(w)
    ELSE [w EXCEPT !.fs = @ \cup {[path |-> path, dir |-> TRUE, id |-> 0]},
                   !.calls = Append(@, [op |-> "mkdir", path |-> path, step |-> w.step])]

\* a record written before the call it describes: it is there whether the call succeeds
record_before_call(w, undo, obj) ==
    IF ~undo THEN w ELSE [w EXCEPT !.undo = Append(@, obj)]

\* UndoLogger.record, behind the caller's "if undo:" (undo is FALSE for None)
record(w, undo, obj) ==
    IF w.exc \/ ~undo THEN w ELSE [w EXCEPT !.undo = Append(@, obj)]

(***************************************************************************)
(* Helpers of the reconciliation engine                                    *)
(***************************************************************************)
\* range(1, 200) of unique_name_in_parent
MaxSuffix == 199

\* the loop over range(i, 200): the first candidate that is not taken, "" if all are
FirstFree(stem, ext, existing, i) ==
    LET Taken(k) == (stem \o " (" \o ToString(k) \o ")" \o ext) \in existing
    IN  IF \A k \in i..MaxSuffix : Taken(k) THEN ""
        ELSE stem \o " ("
                 \o ToString(CHOOSE k \in i..MaxSuffix :
                                 ~Taken(k) /\ \A j \in i..(k - 1) : Taken(j))
                 \o ")" \o ext

\* a resolver that never gives the " (1)" form
unique_name_from_two(t, parent, desired0) ==
    LET desired  == safe_filename(desired0)
        existing == IF IsDir(t, parent) THEN KidNames(t, parent) ELSE {}
    IN  IF desired \notin existing THEN desired
        ELSE IF on_conflict = "skip" THEN ""
        ELSE FirstFree(SplitStem(desired), SplitExt(desired), existing, 2)

\* unique_name_in_parent: a failed listing counts as an empty directory
unique_name_in_parent(t, parent, desired0) ==
    LET desired  == safe_filename(desired0)
        existing == IF IsDir(t, parent) THEN KidNames(t, parent) ELSE {}
    IN  IF desired \notin existing THEN desired
        ELSE IF on_conflict = "skip" THEN ""
        ELSE FirstFree(SplitStem(desired), SplitExt(desired), existing, 1)

\* ensure_dir without its "if dry_run" branch: the directory is made in either mode
ensure_dir_unguarded(w, parent, name0) ==
    LET name   == safe_filename(name0)
        target == join_path(parent, name)
    IN  IF w.exc THEN w
        ELSE IF ~IsDir(w.fs, parent) THEN Raise(w)
        ELSE IF \E n \in Kids(w.fs, parent) : n.dir /\ n.path = target THEN Ret(w, target)
        ELSE Ret(client_mkdir(Log(w, [t |-> "mkdir", path |-> target]), target), target)

\* ensure_dir
ensure_dir(w, parent, name0) ==
    LET name   == safe_filename(name0)
        target == join_path(parent, name)
    IN  IF w.exc THEN w
        ELSE IF ~IsDir(w.fs, parent) THEN Raise(w)
        ELSE IF \E n \in Kids(w.fs, parent) : n.dir /\ n.path = target THEN Ret(w, target)
        ELSE IF dry_run THEN Ret(Log(w, [t |-> "mkdir", path |-> target]), target)
        ELSE Ret(client_mkdir(Log(w, [t |-> "mkdir", path |-> target]), target), target)

\* maybe_rename_path
maybe_rename_path(w, full_path, new_name0, dry_return_new, undo) ==
    LET sp       == split_path(full_path)
        parent   == sp.parent
        old      == sp.base
        new_name == safe_filename(new_name0)
        resolved == unique_name_in_parent(w.fs, parent, new_name)
        line     == [t |-> "rename", path |-> full_path, new |-> resolved]
    IN  IF w.exc THEN w
        ELSE IF old = new_name \/ old = "" THEN Ret(w, full_path)
        ELSE IF resolved = ""
             THEN Ret(Log(w, [t |-> "skip", path |-> full_path, new |-> new_name]), full_path)
        ELSE IF dry_run
             THEN Ret(Log(w, line),
                      IF dry_return_new THEN join_path(parent, resolved) ELSE full_path)
        ELSE LET w1 == client_rename(Log(w, line), full_path, resolved)
                 w2 == record(w1, undo, [op |-> "rename_path", parent |-> parent,
                                         old |-> old, new |-> resolved])
             IN  Ret(w2, join_path(parent, resolved))

\* maybe_rename
maybe_rename(w, parent, old_name, new_name, undo) ==
    maybe_rename_path(w, join_path(parent, old_name), new_name, TRUE, undo)

\* maybe_move, the loop over the names (MOVE_INDIVIDUAL at its default of "1")
RECURSIVE MoveNames(_, _, _, _, _, _)
MoveNames(w, src_dir, dst_dir, names, dst_existing, undo) ==
    IF w.exc \/ names = <<>> THEN w
    ELSE
    LET name     == Head(names)
        rest     == Tail(names)
        resolved == unique_name_in_parent(w.fs, dst_dir, name)
        conflict == name \in dst_existing
        final    == IF conflict THEN resolved ELSE name
        w1 == IF conflict /\ resolved # name
              THEN LET r == client_rename([w EXCEPT !.step = @ \o ".conflict"],
                                          join_path(src_dir, name), resolved)
                   IN  [record(r, undo, [op |-> "rename_path", parent |-> src_dir,
                                         old |-> name, new |-> resolved])
                            EXCEPT !.step = w.step]
              ELSE w
        w2 == client_move(Log(w1, [t |-> "move", names |-> <<final>>, src |-> src_dir,
                                   dst |-> dst_dir]), src_dir, dst_dir, final)
        w3 == record(w2, undo, [op |-> "move", src_dir |-> src_dir, dst_dir |-> dst_dir,
                                names |-> <<final>>])
    IN  IF name = "" THEN MoveNames(w, src_dir, dst_dir, rest, dst_existing, undo)
        ELSE IF conflict /\ resolved = ""
             THEN MoveNames(Log(w, [t |-> "skip", path |-> join_path(src_dir, name),
                                    new |-> name]),
                            src_dir, dst_dir, rest, dst_existing, undo)
        ELSE MoveNames(w3, src_dir, dst_dir, rest, dst_existing \cup {final}, undo)

\* maybe_move
maybe_move(w, src_dir, dst_dir, names, undo) ==
    IF w.exc \/ names = <<>> \/ src_dir = dst_dir THEN w
    ELSE IF dry_run
         THEN Log(w, [t |-> "move", names |-> names, src |-> src_dir, dst |-> dst_dir])
    ELSE MoveNames(w, src_dir, dst_dir, names,
                   IF IsDir(w.fs, dst_dir) THEN KidNames(w.fs, dst_dir) ELSE {}, undo)

\* maybe_move_folder_to_dir
MoveFolderNamed(w1, dst_dir, undo) ==
    Ret(maybe_move(w1, split_path(w1.ret).parent, dst_dir, <<split_path(w1.ret).base>>, undo),
        join_path(dst_dir, split_path(w1.ret).base))

MoveFolderAs(w, folder_path, dst_dir, final_name, undo) ==
    MoveFolderNamed(IF final_name # split_path(folder_path).base
                    THEN maybe_rename_path(w, folder_path, final_name, TRUE, undo)
                    ELSE Ret(w, folder_path),
                    dst_dir, undo)

maybe_move_folder_to_dir(w, folder_path, dst_dir, undo) ==
    IF w.exc THEN w
    ELSE IF split_path(folder_path).base = "" \/ split_path(folder_path).parent = dst_dir
    THEN Ret(w, folder_path)
    ELSE MoveFolderAs(w, folder_path, dst_dir,
                      unique_name_in_parent(w.fs, dst_dir, split_path(folder_path).base), undo)

\* AlistClient.remove: nothing is posted for an empty list; an error of the post (here: the
\* directory or one of the names is missing) is logged as a warning and not raised
client_remove(w, dir_path, names) ==
    IF w.exc \/ names = <<>> THEN w
    ELSE IF ~IsDir(w.fs, dir_path)
            \/ \E i \in 1..Len(names) : ~Exists(w.fs, join_path(dir_path, names[i]))
    THEN w
    ELSE [w EXCEPT !.fs = {n \in @ : \A i \in 1..Len(names) :
                                        ~IsPrefix(join_path(dir_path, names[i]), n.path)},
                   !.calls = Append(@, [op |-> "remove", dir |-> dir_path, names |-> names,
                                        step |-> w.step])]

\* AlistClient defines list_dir and no listdir: client.listdir raises AttributeError
ClientHasListdir == FALSE

\* the names the loop of lines 2172-2193 collects, files first and folders second; a folder
\* that is no subtitle folder reaches is_season_dir, a name the module never defines
\* (NameError, outside the try block)
RECURSIVE CleanupScan(_, _, _, _)
CleanupScan(w, entries, del_files, del_dirs) ==
    IF entries = <<>> THEN [w |-> w, del_files |-> del_files, del_dirs |-> del_dirs]
    ELSE LET ent == Head(entries)
             ext == Lower(SplitExt(ent.name))
         IN  IF ent.is_dir
             THEN IF is_subtitle_dir_name(ent.name)
                  THEN CleanupScan(w, Tail(entries), del_files, del_dirs)
                  ELSE [w |-> Raise(w), del_files |-> del_files, del_dirs |-> del_dirs]
             ELSE IF ext = ".txt" THEN CleanupScan(w, Tail(entries), del_files, del_dirs)
             ELSE IF ext \in AD_DELETE_EXTS
                     \/ (contains_junk_marker(ent.name)
                             /\ ext \notin {".nfo", ".jpg", ".jpeg", ".png", ".webp"})
                  THEN CleanupScan(w, Tail(entries), Append(del_files, ent.name), del_dirs)
             ELSE CleanupScan(w, Tail(entries), del_files, del_dirs)

CleanupRemove(sc, dir_path) ==
    IF sc.w.exc THEN sc.w
    ELSE client_remove(client_remove(sc.w, dir_path, sc.del_files), dir_path, sc.del_dirs)

\* cleanup_ads_in_dir with a listing that does not spare the names ending in .txt
CleanupAnyExt(w, dir_path) ==
    client_remove(w, dir_path,
                  SelectSeq(Names(SelectSeq(list_dir(w.fs, dir_path), LAMBDA e : ~e.is_dir)),
                            contains_junk_marker))

\* cleanup_ads_in_dir (DELETE_ADS on, apply): the first statement of the try block raises
\* AttributeError and the function returns from its except branch
cleanup_ads_in_dir(w, dir_path) ==
    IF w.exc \/ ~ClientHasListdir THEN w
    ELSE CleanupRemove(CleanupScan(w, list_dir(w.fs, dir_path), <<>>, <<>>), dir_path)

\* relocate_subtitles_in_show_root: returns from the except branch of its first statement
\* for the same reason
relocate_subtitles_in_show_root(w, series_path) == w

(***************************************************************************)
(* Series context and metadata resolution                                  *)
(***************************************************************************)
\* --roots: the library root the runs are given
LibRoot == <<"tv">>

\* find_library_root(series_path, library_roots) or os.path.dirname(series_path)
find_library_root(p) ==
    IF IsPrefix(LibRoot, p) THEN LibRoot ELSE split_path(p).parent

MISC_DIR_NAMES ==
    {"__macosx", "sample", "samples", "screens", "screen", "screenshots", "extras", "extra",
     "bonus", "bts", "poster", "posters", "fanart", "thumb", "thumbs", "artwork", "cd1", "cd2",
     "subs", "sub", "subtitle", "subtitles"}

\* subdirs[:3] and video_names[:8] of gather_series_context
MaxPeekDirs == 3
MaxSamples == 8

VideoNames(t, p) ==
    Names(SelectSeq(list_dir(t, p), LAMBDA e : ~e.is_dir /\ IsVideoName(e.name)))

\* the videos of the first of the directories that has any
FirstVideos(t, p, dirs) ==
    LET K == {i \in 1..Len(dirs) : VideoNames(t, join_path(p, dirs[i])) # <<>>}
    IN  IF K = {} THEN <<>> ELSE VideoNames(t, join_path(p, dirs[Min(K)]))

\* the longer of the English title eng and the best one so far
Longer(eng, best) == IF eng # "" /\ Len(eng) > Len(best) THEN eng ELSE best

RECURSIVE BestEnglish(_, _)
BestEnglish(names, best) ==
    IF names = <<>> THEN best
    ELSE BestEnglish(Tail(names),
                     Longer(extract_english_title_from_filename(Head(names)), best))

Prefix(s, n) == SubSeq(s, 1, Min({n, Len(s)}))

\* the subdirectories named N, the season folders first
PeekDirs(N) ==
    SortedSeq({x \in N : parse_season_from_text(x) # NoneV})
        \o SortedSeq({x \in N : parse_season_from_text(x) = NoneV})

\* the videos of the folder, else those of the first of its subdirectories that has any
SampleVideos(t, series_path, root_v) ==
    IF root_v # <<>> THEN root_v
    ELSE FirstVideos(t, series_path,
             Prefix(PeekDirs({n.path[Len(n.path)] :
                                 n \in {k \in Kids(t, series_path) :
                                           k.dir /\ Lower(k.path[Len(k.path)])
                                                        \notin MISC_DIR_NAMES}}),
                    MaxPeekDirs))

\* gather_series_context: the year hint and the English title ("" for None) of a folder
gather_series_context(t, series_path) ==
    [year_hint |-> extract_year_hint(split_path(series_path).base),
     english_title |->
         IF ~IsDir(t, series_path) THEN ""
         ELSE BestEnglish(Prefix(SampleVideos(t, series_path, VideoNames(t, series_path)),
                                 MaxSamples), "")]

\* the TMDB collaborator: the series it knows, and a search that answers with the series
\* whose title is the query, letter case ignored
Catalog ==
    <<[tv_id |-> 1, name |-> "Show", year |-> 2020],
      [tv_id |-> 2, name |-> "Other", year |-> 2019]>>

search_tv(q) == SelectSeq(Catalog, LAMBDA r : Lower(r.name) = Lower(q))

\* levenshtein_ratio in percent (rounded down)
SimPct(a, b) ==
    IF a = "" /\ b = "" THEN 100
    ELSE IF a = "" \/ b = "" THEN 0
    ELSE (100 * (Max({Len(a), Len(b)}) - LevDist(a, b))) \div Max({Len(a), Len(b)})

\* the score of a candidate, in percent: similarity, +12 / -4 for the year hint (the
\* catalog carries no popularity)
Score(r, queries, year_hint) ==
    Max({SimPct(queries[i], r.name) : i \in 1..Len(queries)})
        + (IF year_hint # NoneV /\ r.year # NoneV
           THEN (IF r.year = year_hint THEN 12 ELSE -4) ELSE 0)

RECURSIVE Pool(_, _)
Pool(queries, pooled) ==
    IF queries = <<>> THEN pooled
    ELSE LET rs  == search_tv(Head(queries))
             new == SelectSeq(rs, LAMBDA r : \A i \in 1..Len(pooled) : pooled[i].tv_id # r.tv_id)
         IN  Pool(Tail(queries), pooled \o new)

\* the queries of resolve_series: the cleaned folder name, then the English title of the
\* context when it differs, has a letter and is no bad query
Queries(primary, english) ==
    LET q1 == IF primary # "" /\ ~is_bad_tmdb_query(primary) THEN <<primary>> ELSE <<>>
    IN  q1 \o (IF /\ english # ""
                  /\ Lower(english) # Lower(primary)
                  /\ \E i \in 1..Len(english) :
                         Ch(english, i) \in UpperLetters \cup LowerLetters
                  /\ ~is_bad_tmdb_query(english)
                  /\ <<english>> # q1
               THEN <<english>> ELSE <<>>)

\* the first candidate of the best score
BestOf(pooled, queries, year_hint) ==
    LET sc(i) == Score(pooled[i], queries, year_hint)
    IN  pooled[Min({i \in 1..Len(pooled) : \A j \in 1..Len(pooled) : sc(j) <= sc(i)})]

\* the answer for the chosen candidate, which is cached under the key
Resolved(best, key, season_hint, c) ==
    [found |-> TRUE, name |-> best.name, year |-> best.year, season_hint |-> season_hint,
     cache |-> [k \in DOMAIN c \cup {key} |->
                   IF k = key THEN [tv_id |-> best.tv_id, name |-> best.name,
                                    year |-> best.year]
                   ELSE c[k]]]

ResolvePooled(pooled, queries, year_hint, key, season_hint, c) ==
    IF queries = <<>> \/ pooled = <<>>
    THEN [found |-> FALSE, name |-> "", year |-> NoneV, season_hint |-> season_hint,
          cache |-> c]
    ELSE Resolved(BestOf(pooled, queries, year_hint), key, season_hint, c)

ResolveQueries(queries, year_hint, key, season_hint, c) ==
    ResolvePooled(Pool(queries, <<>>), queries, year_hint, key, season_hint, c)

ResolveKey(key, english, year_hint, season_hint, c) ==
    IF key \in DOMAIN c
    THEN [found |-> TRUE, name |-> c[key].name, year |-> c[key].year,
          season_hint |-> season_hint, cache |-> c]
    ELSE ResolveQueries(Queries(Strip(key), english), year_hint, key, season_hint, c)

\* resolve_series without an AI client: [found, name, year, season_hint, cache]
resolve_series(folder_name, c, ctx) ==
    ResolveKey(clean_series_query(folder_name), Strip(ctx.english_title),
               IF ctx.year_hint # NoneV THEN ctx.year_hint
               ELSE extract_year_hint(folder_name),
               parse_season_from_text(folder_name), c)

\* int(os.getenv("DEFAULT_SEASON", "1") or "1")
DefaultSeason == 1

(***************************************************************************)
(* The AI collaborator                                                     *)
(***************************************************************************)
\* what chat_json gives back for a prompt: ok is false for None (a null or unparseable
\* answer, an HTTP error) and for {}; else the fields of the object, with "", <<>> or NoneV
\* for a field that is absent, null or of another type
NullAnswer == [ok |-> FALSE, query |-> "", queries |-> <<>>, id |-> NoneV, season |-> NoneV]

\* ai is None
NoAI == [on |-> FALSE, extract |-> NullAnswer, propose |-> NullAnswer,
         choose |-> NullAnswer, infer |-> NullAnswer]

\* an AIClient all of whose chat_json calls return None
NullAI == [NoAI EXCEPT !.on = TRUE]

\* ai_extract_query: "" for None
ai_extract_query(ai) == IF ~ai.extract.ok THEN "" ELSE Strip(ai.extract.query)

RECURSIVE UniqStripped(_, _)
UniqStripped(qs, out) ==
    IF qs = <<>> THEN out
    ELSE UniqStripped(Tail(qs),
                      IF Strip(Head(qs)) # "" /\ Strip(Head(qs)) \notin Range(out)
                      THEN Append(out, Strip(Head(qs))) ELSE out)

\* ai_extract_queries: the "queries" of the answer, then its "query"
ai_extract_queries(ai) ==
    IF ~ai.propose.ok THEN <<>>
    ELSE UniqStripped(Append(ai.propose.queries, ai.propose.query), <<>>)

\* ai_choose_tmdb taking no answer for the choice of the candidate 2
ai_choose_default(ai) == IF ~ai.choose.ok THEN 2 ELSE ai.choose.id

\* ai_choose_tmdb: NoneV for None
ai_choose_tmdb(ai) == IF ~ai.choose.ok THEN NoneV ELSE ai.choose.id

\* lines 1686-1710: the queries the AI proposed are searched until one has results or five
\* were tried
RECURSIVE AiRetry(_, _, _, _)
AiRetry(cands, queries, pooled, tried) ==
    IF cands = <<>> THEN [queries |-> queries, pooled |-> pooled]
    ELSE IF \/ Strip(Head(cands)) = ""
            \/ Strip(Head(cands)) \in Range(queries)
            \/ is_bad_tmdb_query(Strip(Head(cands)))
    THEN AiRetry(Tail(cands), queries, pooled, tried)
    ELSE IF Pool(<<Strip(Head(cands))>>, pooled) # <<>> \/ tried + 1 >= 5
    THEN [queries |-> Append(queries, Strip(Head(cands))),
          pooled |-> Pool(<<Strip(Head(cands))>>, pooled)]
    ELSE AiRetry(Tail(cands), Append(queries, Strip(Head(cands))), pooled, tried + 1)

Unresolved(season_hint, c) ==
    [found |-> FALSE, name |-> "", year |-> NoneV, season_hint |-> season_hint, cache |-> c]

\* lines 1747-1760: the candidate the AI picked, when it is one of the candidates
ResolveAiPicked(pooled, best, picked, key, season_hint, c) ==
    Resolved(IF picked # NoneV /\ picked # 0 /\ \E i \in 1..Len(pooled) : pooled[i].tv_id = picked
             THEN pooled[CHOOSE i \in 1..Len(pooled) : pooled[i].tv_id = picked]
             ELSE best,
             key, season_hint, c)

\* lines 1712-1771: the AI is asked when the best score is under 0.72 or the two best
\* scores are closer than 0.03
ResolveAiScored(pooled, queries, best, year_hint, key, season_hint, c, ai) ==
    LET sc(r)  == Score(r, queries, year_hint)
        others == {i \in 1..Len(pooled) : pooled[i] # best}
        low    == \/ sc(best) < 72
                  \/ others # {} /\ \E i \in others : sc(best) - sc(pooled[i]) < 3
    IN  ResolveAiPicked(pooled, best, IF ai.on /\ low THEN ai_choose_tmdb(ai) ELSE NoneV,
                        key, season_hint, c)

ResolveAiPooled(r, year_hint, key, season_hint, c, ai) ==
    IF r.pooled = <<>> THEN Unresolved(season_hint, c)
    ELSE ResolveAiScored(r.pooled, r.queries, BestOf(r.pooled, r.queries, year_hint),
                         year_hint, key, season_hint, c, ai)

\* lines 1679-1684: without results the AI is asked for queries
ResolveAiSearched(pooled, queries, year_hint, key, season_hint, c, ai) ==
    ResolveAiPooled(IF pooled = <<>> /\ ai.on
                    THEN AiRetry(ai_extract_queries(ai)
                                     \o (IF ai_extract_query(ai) # ""
                                         THEN <<ai_extract_query(ai)>> ELSE <<>>),
                                 queries, pooled, 0)
                    ELSE [queries |-> queries, pooled |-> pooled],
                    year_hint, key, season_hint, c, ai)

ResolveAiQueries(queries, year_hint, key, season_hint, c, ai) ==
    IF queries = <<>> THEN Unresolved(season_hint, c)
    ELSE ResolveAiSearched(Pool(queries, <<>>), queries, year_hint, key, season_hint, c, ai)

\* lines 1617-1629: the cache is asked first; the AI is asked for a query when the cleaned
\* name has fewer than two characters
ResolveAiKey(key, english, year_hint, season_hint, c, ai) ==
    IF key \in DOMAIN c
    THEN [found |-> TRUE, name |-> c[key].name, year |-> c[key].year,
          season_hint |-> season_hint, cache |-> c]
    ELSE ResolveAiQueries(Queries(IF Len(Strip(key)) < 2 /\ ai.on /\ ai_extract_query(ai) # ""
                                  THEN ai_extract_query(ai) ELSE Strip(key),
                                  english),
                          year_hint, key, season_hint, c, ai)

\* resolve_series with its ai argument
resolve_series_ai(folder_name, c, ctx, ai) ==
    ResolveAiKey(clean_series_query(folder_name), Strip(ctx.english_title),
                 IF ctx.year_hint # NoneV THEN ctx.year_hint
                 ELSE extract_year_hint(folder_name),
                 parse_season_from_text(folder_name), c, ai)

\* _has_any_season_hint, as far as its patterns are ASCII: "Season 1", or S1 between
\* characters that are no word characters
has_any_season_hint(folder_name, scan_basename) ==
    LET joined == IF folder_name # "" /\ scan_basename # ""
                  THEN folder_name \o " " \o scan_basename
                  ELSE folder_name \o scan_basename
    IN  \/ SeasonWord(joined) # {}
        \/ \E i \in 1..Len(joined), k \in 1..2 :
               /\ Ch(joined, i) \in {"S", "s"}
               /\ ~IsWord(Ch(joined, i - 1))
               /\ AllDigits(joined, i + 1, k)
               /\ ~IsWord(Ch(joined, i + 1 + k))

\* lines 2822-2840: the season of a loose file whose name and directory give none is
\* asked of the AI under AI_INFER_SEASON=1, and is the default season otherwise
season_fallback(season, ai, allow_ai_infer_season, folder_name, scan_basename) ==
    LET inferred == IF /\ season = NoneV /\ ai.on /\ allow_ai_infer_season
                       /\ has_any_season_hint(folder_name, scan_basename)
                       /\ ai.infer.ok /\ ai.infer.season # NoneV
                    THEN ai.infer.season ELSE season
    IN  IF inferred = NoneV THEN DefaultSeason ELSE inferred

(***************************************************************************)
(* Variety shows and specials                                              *)
(***************************************************************************)
\* _SPECIAL_MARKERS, as far as they are ASCII
SPECIAL_MARKERS == {"sp", "special", "pv", "cm"}

is_special_episode_name(name) == \E m \in SPECIAL_MARKERS : Contains(Lower(name), m)

DaysIn(y, mo) ==
    IF mo \in {4, 6, 9, 11} THEN 30
    ELSE IF mo = 2 THEN (IF y % 4 = 0 /\ (y % 100 # 0 \/ y % 400 = 0) THEN 29 ELSE 28)
    ELSE 31

\* _DATE8_RE at position i: [year, month, day], or <<>>
Date8At(t, i) ==
    IF /\ AllDigits(t, i, 8) /\ StartsAt(t, i, "20")
       /\ ~IsDigit(Ch(t, i - 1)) /\ ~IsDigit(Ch(t, i + 8))
       /\ IntOf(t, i + 4, 2) \in 1..12 /\ IntOf(t, i + 6, 2) \in 1..31
    THEN <<IntOf(t, i, 4), IntOf(t, i + 4, 2), IntOf(t, i + 6, 2)>>
    ELSE <<>>

\* _DATE_SEP_RE at position i
DateSepAt(t, i) ==
    LET K == {k \in [m : 1..2, d : 1..2] :
                 /\ AllDigits(t, i, 4) /\ StartsAt(t, i, "20") /\ ~IsDigit(Ch(t, i - 1))
                 /\ Ch(t, i + 4) \in {".", "-", "_"}
                 /\ AllDigits(t, i + 5, k.m)
                 /\ Ch(t, i + 5 + k.m) \in {".", "-", "_"}
                 /\ AllDigits(t, i + 6 + k.m, k.d)
                 /\ ~IsDigit(Ch(t, i + 6 + k.m + k.d))}
        k == CHOOSE x \in K : TRUE
    IN  IF K = {} THEN <<>>
        ELSE <<IntOf(t, i, 4), IntOf(t, i + 5, k.m), IntOf(t, i + 6 + k.m, k.d)>>

\* parse_date_key: yyyymmdd of the first date of the text, None if there is none or if it
\* is no calendar date
DateKey(m) ==
    IF m = <<>> THEN NoneV
    ELSE IF m[2] \notin 1..12 \/ m[3] \notin 1..DaysIn(m[1], m[2]) THEN NoneV
    ELSE m[1] * 10000 + m[2] * 100 + m[3]

FirstDate(text, E, S) ==
    IF E # {} THEN Date8At(text, Min(E))
    ELSE IF S # {} THEN DateSepAt(text, Min(S)) ELSE <<>>

parse_date_key(text) ==
    DateKey(FirstDate(text, {i \in 1..Len(text) : Date8At(text, i) # <<>>},
                      {i \in 1..Len(text) : DateSepAt(text, i) # <<>>}))

\* the video files of the scan directories, in scan order, each with the season guessed
\* for its directory
SeasonGuess(sh, at_root, root_hint) ==
    LET inc   == IF sh # NoneV THEN sh
                 ELSE IF at_root /\ root_hint # NoneV THEN root_hint ELSE NoneV
        hint  == IF inc # NoneV /\ inc # 0 THEN inc ELSE sh
    IN  IF hint # NoneV THEN hint ELSE DefaultSeason

DirItems(sd, v, guess, special_dir) ==
    [i \in 1..Len(v) |-> [dir |-> sd, name |-> v[i], guess |-> guess,
                          special |-> is_special_episode_name(v[i]) \/ special_dir]]

RECURSIVE ScanItems(_, _, _, _)
ScanItems(t, scan_dirs, nsp, root_hint) ==
    IF scan_dirs = <<>> THEN <<>>
    ELSE DirItems(Head(scan_dirs), VideoNames(t, Head(scan_dirs)),
                  SeasonGuess(parse_season_from_text(Strip(split_path(Head(scan_dirs)).base)),
                              Head(scan_dirs) = nsp, root_hint),
                  is_special_episode_name(Strip(split_path(Head(scan_dirs)).base)))
             \o ScanItems(t, Tail(scan_dirs), nsp, root_hint)

\* the sort key of a candidate: (date) for a special, (9999, 0, date) otherwise, then the name
KeyLess(a, b) ==
    LET ka == IF a.special THEN a.date ELSE 9999
        kb == IF b.special THEN b.date ELSE 9999
        na == Lower(normalize_spaces(a.name))
        nb == Lower(normalize_spaces(b.name))
    IN  \/ ka < kb
        \/ ka = kb /\ a.date < b.date
        \/ ka = kb /\ a.date = b.date /\ StrLess(na, nb)
        \/ ka = kb /\ a.date = b.date /\ na = nb /\ a.pos < b.pos

RECURSIVE AssignEpisodes(_, _, _, _)
AssignEpisodes(C, used, next_ep, season) ==
    IF C = {} THEN {}
    ELSE LET c == CHOOSE x \in C : \A y \in C \ {x} : KeyLess(x, y)
             n == CHOOSE k \in next_ep..(next_ep + Cardinality(used)) :
                      k \notin used /\ \A j \in next_ep..(k - 1) : j \in used
         IN  {[dir |-> c.dir, name |-> c.name, season |-> season, ep |-> n,
               special |-> c.special]}
                 \cup AssignEpisodes(C \ {c}, used \cup {n}, n + 1, season)

\* the plans for the items, each with its parsed episode number ep and date key date: the
\* files with a date and no episode number are numbered, per target season (0 for a
\* special), after the episode numbers the season already holds
PlanParsed(items) ==
    LET I     == 1..Len(items)
        Target(i) == IF items[i].special THEN 0 ELSE items[i].guess
        Cand  == {i \in I : items[i].ep = NoneV /\ items[i].date # NoneV}
        Used(s) == {items[i].ep : i \in {j \in I : items[j].ep # NoneV /\ items[j].guess = s}}
        C(s)  == {[dir |-> items[i].dir, name |-> items[i].name,
                   special |-> items[i].special, date |-> items[i].date, pos |-> i] :
                     i \in {j \in Cand : Target(j) = s}}
    IN  UNION {AssignEpisodes(C(s), Used(s), 1, s) : s \in {Target(i) : i \in Cand}}

PlanItems(items) ==
    PlanParsed([i \in 1..Len(items) |->
                   [dir |-> items[i].dir, name |-> items[i].name, guess |-> items[i].guess,
                    special |-> items[i].special,
                    ep |-> parse_episode_from_name(items[i].name).ep,
                    date |-> parse_date_key(items[i].name)]])

\* infer_variety_and_special_episodes: the plans, as a set of [dir, name, season, ep, special]
infer_variety_and_special_episodes(t, scan_dirs, nsp, root_hint) ==
    PlanItems(ScanItems(t, scan_dirs, nsp, root_hint))

(***************************************************************************)
(* process_series_folder: the work done for one directory entry            *)
(***************************************************************************)
\* main passes rename_series and rename_files unless --no-rename-series / --no-rename-files
\* are given; FIX_BARE_SXXEYY defaults to "1"; there is no AI client
rename_series == TRUE
rename_files == TRUE
fix_bare_sxxeyy == TRUE

\* main: undo_logger is None in dry-run mode, an UndoLogger otherwise
undo_logger == ~dry_run

\* Python's "a or b" on Optional[int]: None and 0 are both false
OrElse(a, b) == IF a # NoneV /\ a # 0 THEN a ELSE b

\* ensure_season_dir of process_series_folder
ensure_season_dir(w, nsp, season) == ensure_dir(w, nsp, season_folder_name(season))

\* " ".join(parts).strip()
JoinSp(parts) ==
    LET RECURSIVE J(_)
        J(i) == IF i > Len(parts) THEN ""
                ELSE parts[i] \o (IF i < Len(parts) THEN " " ELSE "") \o J(i + 1)
    IN  Strip(J(1))

\* the sidecars follow the video: one maybe_rename_path per sidecar
RECURSIVE RenameSidecars(_, _, _, _, _)
RenameSidecars(w, dir, sidecars, new_stem, undo) ==
    IF w.exc \/ sidecars = <<>> THEN w
    ELSE RenameSidecars(
             maybe_rename_path(w, join_path(dir, Head(sidecars)),
                               safe_filename(build_new_sidecar_name(new_stem, Head(sidecars))),
                               TRUE, undo),
             dir, Tail(sidecars), new_stem, undo)

\* the sidecars follow the video that maybe_rename_path has just named (w.ret)
FollowVideo(w, dir, sidecars) ==
    RenameSidecars(w, dir, sidecars, SplitStem(split_path(w.ret).base), undo_logger)

\* lines 2797-2801: the renames of the one-folder-per-episode branch are issued through
\* maybe_rename, which is given no undo logger
EpisodeFileNamed(w1, dst, f0, sidecars, doit, new_video) ==
    IF doit
    THEN RenameSidecars(maybe_rename(w1, dst, f0.name, new_video, FALSE),
                        dst, sidecars, SplitStem(new_video), FALSE)
    ELSE w1

\* lines 2781-2796: the video moves to the season directory with its sidecars
EpisodeFileParsed(w, fr, ep_folder_path, dst, f0, pe, season, ep, sidecars) ==
    LET prefix == pe.already /\ fix_bare_sxxeyy
                     /\ needs_series_prefix_for_sxxeyy(f0.name, fr.desired)
    IN  EpisodeFileNamed(
            IF ep_folder_path # dst
            THEN maybe_move(w, ep_folder_path, dst, <<f0.name>> \o sidecars, undo_logger)
            ELSE w,
            dst, f0, sidecars,
            rename_files /\ (~pe.already \/ ~protect_sxxeyy
                                \/ contains_junk_marker(f0.name) \/ prefix),
            IF prefix
            THEN build_prefixed_sxxeyy_name(fr.desired, season, ep, f0.name)
            ELSE build_new_video_name(fr.desired, season, ep, f0.name,
                     JoinSp(<<pe.suffix, split_path(fr.scan_dir).base, fr.folder_name>>)))

\* lines 2770-2779: season and episode of a video of the episode folder
EpisodeFile(w, fr, ep_folder_path, dst, ep_entries, f0, pe, season_dir_num, ep_dir) ==
    EpisodeFileParsed(w, fr, ep_folder_path, dst, f0, pe,
                      OrElse(pe.s, season_dir_num), OrElse(pe.ep, ep_dir),
                      related_sidecars(Range(ep_entries), f0.name,
                                       OrElse(pe.s, season_dir_num), OrElse(pe.ep, ep_dir)))

\* lines 2769-2801: the files of a one-folder-per-episode directory
RECURSIVE EpisodeFolderFiles(_, _, _, _, _, _, _, _)
EpisodeFolderFiles(w, fr, ep_folder_path, dst, ep_entries, todo, season_dir_num, ep_dir) ==
    IF w.exc \/ todo = <<>> THEN w
    ELSE EpisodeFolderFiles(
             IF Head(todo).is_dir \/ ~IsVideoName(Head(todo).name) THEN w
             ELSE EpisodeFile(w, fr, ep_folder_path, dst, ep_entries, Head(todo),
                              parse_episode_from_name(Head(todo).name),
                              season_dir_num, ep_dir),
             fr, ep_folder_path, dst, ep_entries, Tail(todo), season_dir_num, ep_dir)

\* the season hint of the directory being scanned
scan_season_hint(fr) ==
    OrElse(parse_season_from_text(split_path(fr.scan_dir).base),
           IF fr.scan_dir = fr.nsp THEN fr.hint ELSE NoneV)

\* lines 2764-2769: the episode folder is listed, its files go to the season directory w1.ret
ScanFolderPlaced(w1, fr, path, num, ep_dir) ==
    IF w1.exc THEN w1
    ELSE IF ~IsDir(w1.fs, path) THEN Raise(w1)
    ELSE EpisodeFolderFiles(w1, fr, path, w1.ret, list_dir(w1.fs, path),
                            list_dir(w1.fs, path), num, ep_dir)

ScanFolderParsed(w, fr, ent, pd) ==
    LET num == OrElse(OrElse(pd.s, scan_season_hint(fr)), DefaultSeason)
    IN  IF pd.ep = NoneV THEN w
        ELSE ScanFolderPlaced(
                 ensure_season_dir([w EXCEPT !.step = "episode_folder"], fr.nsp, num),
                 fr, join_path(fr.scan_dir, ent.name), num, pd.ep)

\* lines 2758-2803: a directory met in a scan directory
ScanFolder(w, fr, ent) == ScanFolderParsed(w, fr, ent, parse_episode_from_name(ent.name))

\* a loose-file step that gives every video the canonical name, marker or not
ScanFileMovedCanonical(w2, dst, fr, ent, pe, ep, season, sidecars) ==
    FollowVideo(
        IF rename_files
        THEN maybe_rename_path(
                 w2, join_path(dst, ent.name),
                 build_new_video_name(fr.desired, season, ep, ent.name,
                     JoinSp(<<pe.suffix, split_path(fr.scan_dir).base, fr.folder_name>>)),
                 TRUE, undo_logger)
        ELSE Ret(w2, join_path(dst, ent.name)),
        dst, sidecars)

\* lines 2849-2868: the video, now in dst, takes its name and its sidecars follow
ScanFileMoved(w2, dst, fr, ent, pe, ep, season, sidecars) ==
    LET canon  == ~pe.already \/ ~protect_sxxeyy
        prefix == fix_bare_sxxeyy /\ needs_series_prefix_for_sxxeyy(ent.name, fr.desired)
    IN  FollowVideo(
            IF rename_files /\ (canon \/ prefix)
            THEN maybe_rename_path(
                     w2, join_path(dst, ent.name),
                     IF canon
                     THEN build_new_video_name(fr.desired, season, ep, ent.name,
                              JoinSp(<<pe.suffix, split_path(fr.scan_dir).base,
                                       fr.folder_name>>))
                     ELSE build_prefixed_sxxeyy_name(fr.desired, season, ep, ent.name),
                     TRUE, undo_logger)
            ELSE Ret(w2, join_path(dst, ent.name)),
            dst, sidecars)

\* lines 2842-2847: the video moves to the season directory w1.ret with its sidecars
ScanFilePlaced(w1, fr, ent, pe, ep, season, sidecars) ==
    ScanFileMoved(IF fr.scan_dir # w1.ret
                  THEN maybe_move(w1, fr.scan_dir, w1.ret, <<ent.name>> \o sidecars,
                                  undo_logger)
                  ELSE w1,
                  w1.ret, fr, ent, pe, ep, season, sidecars)

\* lines 2808-2840: season and episode, from the name or else from the plan of the file
ScanFileParsed(w, fr, ent, pe, P) ==
    LET plan   == CHOOSE p \in P : TRUE
        ep     == IF pe.ep = NoneV THEN plan.ep ELSE pe.ep
        s0     == IF pe.ep = NoneV THEN plan.season
                  ELSE IF pe.s # NoneV THEN pe.s ELSE scan_season_hint(fr)
        season == season_fallback(s0, NoAI, FALSE, fr.folder_name,
                                  split_path(fr.scan_dir).base)
    IN  IF pe.ep = NoneV /\ P = {} THEN w
        ELSE ScanFilePlaced(
                 ensure_season_dir([w EXCEPT !.step = "loose_file"], fr.nsp, season),
                 fr, ent, pe, ep, season,
                 related_sidecars(Range(fr.entries), ent.name, season, ep))

\* lines 2804-2868: a file met in a scan directory
ScanFile(w, fr, ent) ==
    IF ~IsVideoName(ent.name) THEN w
    ELSE ScanFileParsed(w, fr, ent, parse_episode_from_name(ent.name),
                        {p \in fr.plans : p.dir = fr.scan_dir /\ p.name = ent.name})

\* lines 2893-2914: the video of a season directory takes its name, its sidecars follow
CleanFileParsed(w0, fr, ent, pe) ==
    LET s      == IF pe.s = NoneV THEN fr.season ELSE pe.s
        canon  == rename_files /\ (~pe.already \/ contains_junk_marker(ent.name))
        prefix == rename_files /\ pe.already /\ fix_bare_sxxeyy
                     /\ needs_series_prefix_for_sxxeyy(ent.name, fr.desired)
    IN  IF pe.ep = NoneV THEN w0
        ELSE FollowVideo(
                 IF canon \/ prefix
                 THEN maybe_rename_path(
                          [w0 EXCEPT !.step = "cleanup"], join_path(fr.scan_dir, ent.name),
                          IF canon
                          THEN build_new_video_name(fr.desired, s, pe.ep, ent.name,
                                   Strip(pe.suffix \o "  " \o split_path(fr.scan_dir).base
                                             \o " " \o fr.folder_name))
                          ELSE build_prefixed_sxxeyy_name(fr.desired, s, pe.ep, ent.name),
                          TRUE, undo_logger)
                 ELSE Ret([w0 EXCEPT !.step = "cleanup"], join_path(fr.scan_dir, ent.name)),
                 fr.scan_dir, related_sidecars(Range(fr.entries), ent.name, s, pe.ep))

\* lines 2887-2914: an entry of a season directory, in the second pass
CleanFile(w0, fr, ent) ==
    IF ent.is_dir \/ ~IsVideoName(ent.name) THEN w0
    ELSE CleanFileParsed(w0, fr, ent, parse_episode_from_name(ent.name))

(***************************************************************************)
(* process_series_folder: from its entry to the scan loop                  *)
(***************************************************************************)
\* "if depth > 3" of process_series_folder
MaxDepth == 3

\* an activation of process_series_folder: its position pc and its local variables
Frame(series_path, depth) ==
    [pc |-> "begin", series_path |-> series_path, depth |-> depth,
     folder_name |-> split_path(series_path).base,
     lib_root |-> find_library_root(series_path),
     nsp |-> series_path, desired |-> "", hint |-> NoneV,
     kids |-> <<>>, child |-> <<>>, scan_dirs |-> <<>>, scan_dir |-> <<>>,
     entries |-> <<>>, todo |-> <<>>, plans |-> {}, seasons |-> <<>>, season |-> NoneV]

\* the outcome of a step: the activation goes on (in frame f), returns ret, or calls a child
Cont(w, f) == [w |-> w, k |-> "cont", f |-> f, ret |-> <<>>, stopped |-> FALSE]
Return(w, f, ret) == [w |-> w, k |-> "ret", f |-> f, ret |-> ret, stopped |-> FALSE]

\* re.search(r"(...|collection|franchise)", folder_name, re.I)
container_words(folder_name) ==
    Contains(Lower(folder_name), "collection") \/ Contains(Lower(folder_name), "franchise")

Paths(dir, names) == [i \in 1..Len(names) |-> join_path(dir, names[i])]

\* lines 2646-2654: the season folders of the first season container move up to the show
RECURSIVE MoveSeasonDirs(_, _, _, _)
MoveSeasonDirs(w, container_path, nsp, season_dirs) ==
    IF w.exc \/ season_dirs = <<>> THEN w
    ELSE MoveSeasonDirs(maybe_move(w, container_path, nsp, <<Head(season_dirs).name>>,
                                   undo_logger),
                        container_path, nsp, Tail(season_dirs))

Flatten(w0, nsp) ==
    LET w  == [w0 EXCEPT !.step = "flatten"]
        cs == SelectSeq(list_dir(w.fs, nsp),
                        LAMBDA e : e.is_dir /\ is_season_container_folder(e.name))
        container_path == join_path(nsp, cs[1].name)
        season_dirs == SelectSeq(list_dir(w.fs, container_path),
                           LAMBDA se : se.is_dir /\ parse_season_from_text(se.name) # NoneV)
    IN  IF w.exc THEN w
        ELSE IF ~IsDir(w.fs, nsp) THEN Raise(w)
        ELSE IF cs = <<>> THEN w
        ELSE MoveSeasonDirs(w, container_path, nsp, season_dirs)

\* lines 2664-2673: the season folders take their canonical name
RECURSIVE RenameSeasonDirs(_, _, _)
RenameSeasonDirs(w, nsp, todo) ==
    IF w.exc \/ todo = <<>> THEN w
    ELSE LET e       == Head(todo)
             season  == parse_season_from_text(e.name)
             desired == season_folder_name(season)
         IN  RenameSeasonDirs(
                 IF e.is_dir /\ season # NoneV /\ e.name # desired
                 THEN maybe_rename_path(w, join_path(nsp, e.name), desired, TRUE, undo_logger)
                 ELSE w,
                 nsp, Tail(todo))

NormalizeSeasons(w0, nsp) ==
    LET w == [w0 EXCEPT !.step = "season_rename"]
    IN  IF w.exc THEN w
        ELSE IF ~IsDir(w.fs, nsp) THEN Raise(w)
        ELSE RenameSeasonDirs(w, nsp, list_dir(w.fs, nsp))

\* lines 2702-2722: the scan loop is entered with the plans of the variety files
BeginPlanned(w3, nsp, fr0, meta, desired, nested, scan_dirs) ==
    Cont(w3, [fr0 EXCEPT !.pc = "scan", !.nsp = nsp, !.desired = desired,
                         !.hint = meta.season_hint, !.kids = nested,
                         !.scan_dirs = scan_dirs,
                         !.plans = infer_variety_and_special_episodes(
                                       w3.fs, scan_dirs, nsp, meta.season_hint)])

\* lines 2676-2696: the directories to scan and the nested shows, from the listing root
BeginSorted(w3, nsp, fr0, meta, desired, misc, nested) ==
    BeginPlanned(w3, nsp, fr0, meta, desired, Paths(nsp, nested),
                 <<nsp>> \o Paths(nsp, SelectSeq(misc, LAMBDA n : n \notin Range(nested))))

BeginScan(w3, nsp, fr0, meta, desired, root) ==
    LET IsMisc(e) == /\ e.is_dir /\ parse_season_from_text(e.name) = NoneV
                     /\ ~should_skip_misc_folder(e.name)
        IsNested(e) == /\ IsMisc(e) /\ looks_like_show_folder_name(e.name)
                       /\ ~is_same_show_container_folder(e.name, desired)
    IN  BeginSorted(w3, nsp, fr0, meta, desired, Names(SelectSeq(root, IsMisc)),
                    Names(SelectSeq(root, IsNested)))

\* line 2676: the series folder is listed again
BeginSeasons(w3, nsp, fr0, meta, desired) ==
    IF w3.exc \/ ~IsDir(w3.fs, nsp) THEN Cont(Raise(w3), fr0)
    ELSE BeginScan(w3, nsp, fr0, meta, desired, list_dir(w3.fs, nsp))

\* lines 2640-2673: the folder, now at w1.ret, is cleaned, flattened and its seasons named
BeginNamed(w1, fr0, meta, desired) ==
    BeginSeasons(
        NormalizeSeasons(
            Flatten(relocate_subtitles_in_show_root(cleanup_ads_in_dir(w1, w1.ret), w1.ret),
                    w1.ret),
            w1.ret),
        w1.ret, fr0, meta, desired)

\* lines 2630-2639: the series folder takes its canonical name
BeginResolved(w0, fr0, meta) ==
    LET desired == IF meta.year # NoneV
                   THEN meta.name \o " (" \o ToString(meta.year) \o ")" ELSE meta.name
        wc      == [w0 EXCEPT !.cache = meta.cache, !.step = "series_rename"]
    IN  IF ~meta.found
        THEN Return(Log(wc, [t |-> "not_found", path |-> fr0.series_path]), fr0,
                    fr0.series_path)
        ELSE BeginNamed(IF rename_series
                        THEN maybe_rename_path(wc, fr0.series_path, desired, FALSE,
                                               undo_logger)
                        ELSE Ret(wc, fr0.series_path),
                        fr0, meta, desired)

\* lines 2586-2629: a collection folder is left to its children, any other is resolved
BeginChildren(w0, fr0, pre, child_dirs, show_like) ==
    IF /\ \A i \in 1..Len(pre) : pre[i].is_dir \/ ~IsVideoName(pre[i].name)
       /\ \A i \in 1..Len(pre) :
              ~(pre[i].is_dir /\ parse_season_from_text(pre[i].name) # NoneV)
       /\ \/ Len(show_like) >= 2
          \/ container_words(fr0.folder_name) /\ Len(child_dirs) >= 2
    THEN Cont(Log(w0, [t |-> "collection", path |-> fr0.series_path]),
              [fr0 EXCEPT !.pc = "coll",
                          !.kids = Paths(fr0.series_path,
                                         Names(IF show_like # <<>> THEN show_like
                                               ELSE child_dirs))])
    ELSE BeginResolved(w0, fr0,
                       resolve_series(fr0.folder_name, w0.cache,
                                      gather_series_context(w0.fs, fr0.series_path)))

BeginListed(w0, fr0, pre) ==
    LET IsChild(e) == /\ e.is_dir /\ parse_season_from_text(e.name) = NoneV
                      /\ ~should_skip_misc_folder(e.name)
    IN  BeginChildren(w0, fr0, pre, SelectSeq(pre, IsChild),
                      SelectSeq(pre, LAMBDA e : IsChild(e)
                                                   /\ looks_like_show_folder_name(e.name)))

\* process_series_folder without the depth test of lines 2570-2572
BeginUnguarded(w0, fr0) ==
    IF ~IsDir(w0.fs, fr0.series_path)
    THEN Return(Log(w0, [t |-> "list_failed", path |-> fr0.series_path]), fr0,
                fr0.series_path)
    ELSE BeginListed(w0, fr0, list_dir(w0.fs, fr0.series_path))

\* lines 2568-2722: process_series_folder from its entry to the scan loop
Begin(w0, fr0) ==
    IF fr0.depth > MaxDepth
    THEN Return(Log(w0, [t |-> "too_deep", path |-> fr0.series_path]), fr0, fr0.series_path)
    ELSE IF ~IsDir(w0.fs, fr0.series_path)
    THEN Return(Log(w0, [t |-> "list_failed", path |-> fr0.series_path]), fr0,
                fr0.series_path)
    ELSE BeginListed(w0, fr0, list_dir(w0.fs, fr0.series_path))

(***************************************************************************)
(* The resume ledger, the undo replay and the libraries of the model       *)
(***************************************************************************)
\* load_state: the paths with a "done" record
load_state(ledger) == {ledger[i].series_path : i \in {j \in 1..Len(ledger) :
                                                        ledger[j].status = "done"}}

\* a ledger that keeps one line per series and updates it in place
append_state_in_place(ledger, obj) ==
    IF \E i \in 1..Len(ledger) : ledger[i].series_path = obj.series_path
    THEN [i \in 1..Len(ledger) |->
              IF ledger[i].series_path = obj.series_path THEN obj ELSE ledger[i]]
    ELSE Append(ledger, obj)

\* a ledger that keeps the "done" outcomes only
append_state_done_only(ledger, obj) ==
    IF obj.status = "done" THEN Append(ledger, obj) ELSE ledger

\* append_state
append_state(ledger, obj) == Append(ledger, obj)

\* apply_undo: the records in reverse order, each inverted; a failure is logged and the
\* replay goes on
RECURSIVE apply_undo(_, _)
apply_undo(w, recs) ==
    IF recs = <<>> THEN w
    ELSE LET rec == recs[Len(recs)]
             w1  == IF rec.op = "rename_path"
                    THEN client_rename(w, join_path(rec.parent, rec.new), rec.old)
                    ELSE client_move(w, rec.dst_dir, rec.src_dir, rec.names[1])
             w2  == IF w1.exc
                    THEN [Log(w1, [t |-> "undo_failed", op |-> rec.op]) EXCEPT !.exc = FALSE]
                    ELSE w1
         IN  apply_undo(w2, SubSeq(recs, 1, Len(recs) - 1))

Dir(p, id) == [path |-> p, dir |-> TRUE, id |-> id]
File(p, id) == [path |-> p, dir |-> FALSE, id |-> id]

\* loose files that canonicalise to the same name and share a subtitle, and a show with
\* one folder per episode
LibLoose ==
    {Dir(<<"tv">>, 1),
     Dir(<<"tv", "Show 2020">>, 2),
     File(<<"tv", "Show 2020", "01.mp4">>, 3),
     File(<<"tv", "Show 2020", "01.srt">>, 4),
     File(<<"tv", "Show 2020", "E01.mp4">>, 5),
     Dir(<<"tv", "Other 2019">>, 6),
     Dir(<<"tv", "Other 2019", "E03">>, 7),
     File(<<"tv", "Other 2019", "E03", "clip.mp4">>, 8),
     File(<<"tv", "Other 2019", "E03", "clip.srt">>, 9),
     File(<<"tv", "Other 2019", "02.mp4">>, 10)}

\* two folders of the same season, a season container, and a collection of two shows
LibSeasons ==
    {Dir(<<"tv">>, 1),
     Dir(<<"tv", "Show 2020">>, 2),
     Dir(<<"tv", "Show 2020", "Season 1">>, 3),
     File(<<"tv", "Show 2020", "Season 1", "01.mp4">>, 4),
     Dir(<<"tv", "Show 2020", "S01">>, 5),
     File(<<"tv", "Show 2020", "S01", "02.mp4">>, 6),
     Dir(<<"tv", "Show 2020", "S1-S3">>, 7),
     Dir(<<"tv", "Show 2020", "S1-S3", "S02">>, 8),
     File(<<"tv", "Show 2020", "S1-S3", "S02", "03.mp4">>, 9),
     Dir(<<"tv", "Pack">>, 10),
     Dir(<<"tv", "Pack", "Other 2019">>, 11),
     File(<<"tv", "Pack", "Other 2019", "01.mp4">>, 12),
     Dir(<<"tv", "Pack", "Show 2020">>, 13),
     File(<<"tv", "Pack", "Show 2020", "05.mp4">>, 14)}

\* a file whose name is taken in the season folder while the suffixed name is taken next
\* to it, and a show nested in another show
LibNested ==
    {Dir(<<"tv">>, 1),
     Dir(<<"tv", "Show 2020">>, 2),
     File(<<"tv", "Show 2020", "Show.S01E01.mkv">>, 3),
     File(<<"tv", "Show 2020", "Show.S01E01 (1).mkv">>, 4),
     Dir(<<"tv", "Show 2020", "S01">>, 5),
     File(<<"tv", "Show 2020", "S01", "Show.S01E01.mkv">>, 6),
     Dir(<<"tv", "Show 2020", "Other 2019">>, 7),
     File(<<"tv", "Show 2020", "Other 2019", "01.mp4">>, 8)}

\* videos that carry SxxEyy: one with the series title, a bare one, one with an ad marker,
\* and one in a folder of its own
LibTagged ==
    {Dir(<<"tv">>, 1),
     Dir(<<"tv", "Show 2020">>, 2),
     File(<<"tv", "Show 2020", "Show.S01E01.mkv">>, 3),
     File(<<"tv", "Show 2020", "S01E02.mkv">>, 4),
     File(<<"tv", "Show 2020", "www.S01E03.mkv">>, 5),
     Dir(<<"tv", "Show 2020", "E05">>, 6),
     File(<<"tv", "Show 2020", "E05", "Show.S01E05.mkv">>, 7)}

Libraries == {LibLoose, LibSeasons, LibNested}

\* the runs of main a behaviour holds
MaxRuns == 2

\* the stop requests a behaviour holds
MaxStops == 1

(***************************************************************************)
(* The state machine                                                       *)
(***************************************************************************)
\* the state main starts from: a library of the set libs, PROTECT_SXXEYY set or not,
\* the mode dry
\* the threads that call LogHub.emit: main, and a request handler of the log server
Threads == {"engine", "handler"}

InitMain(libs, protect, dry) ==
    /\ fs \in libs /\ protect_sxxeyy = protect
    /\ listOrder \in {"asc", "desc"}
    /\ on_conflict \in {"suffix", "skip"}
    /\ dry_run = dry /\ resume = TRUE
    /\ run = 0 /\ mpc = "idle"
    /\ series_paths = <<>> /\ idx = 1 /\ done_set = {}
    /\ stateLedger = <<>> /\ undoLedger = <<>> /\ cache = <<>>
    /\ stop = FALSE /\ stack = <<>> /\ log = <<>>
    /\ calls = <<>> /\ collisions = {} /\ fs0 = fs /\ begun = <<>>
    /\ stopped = {} /\ raised = {}
    /\ seq = 0 /\ events = <<>> /\ emitting = [t \in Threads |-> 0]
    /\ lastId = 0 /\ shown = {}
    /\ prev = [run |-> 0, dry_run |-> TRUE, clean |-> FALSE, calls |-> <<>>, stops |-> 0,
               plan |-> <<>>]

\* main alone: no function is studied on its own
InitWith(libs, protect) == InitMain(libs, protect, TRUE) /\ arg = <<>> /\ res = <<>>

\* the libraries of the model, PROTECT_SXXEYY at its default
Init == InitWith(Libraries, FALSE)

\* the effects so far, as a step starts
World == [fs |-> fs, undo |-> undoLedger, calls |-> calls, log |-> log, coll |-> collisions,
          cache |-> cache, exc |-> FALSE, ret |-> <<>>, step |-> ""]

\* a run log without an error and without an operation abandoned on a conflict
NoError(l) == \A i \in 1..Len(l) : l[i].t \notin {"error", "skip"}

\* main, lines 3155-3198: the series folders of the roots, the resume state, the undo logger;

\* the mkdir, rename and move lines of a run log, in order: what the run decided
DecisionOf(e) ==
    IF e.t = "mkdir" THEN [op |-> "mkdir", path |-> e.path]
    ELSE IF e.t = "rename" THEN [op |-> "rename", path |-> e.path, new |-> e.new]
    ELSE [op |-> "move", src |-> e.src, dst |-> e.dst, names |-> e.names]

Decisions(l) ==
    LET d == SelectSeq(l, LAMBDA e : e.t \in {"mkdir", "rename", "move"})
    IN  [i \in 1..Len(d) |-> DecisionOf(d[i])]

\* the first run is started with RESUME at its default (the ledger is empty)
StartRun(d, r) ==
    /\ mpc \in {"idle", "finished"} /\ run < MaxRuns
    /\ run = 0 => r
    /\ run' = run + 1 /\ dry_run' = d /\ resume' = r /\ mpc' = "loop"
    /\ series_paths' =
           Paths(LibRoot, Names(SelectSeq(list_dir(fs, LibRoot),
                                  LAMBDA e : e.is_dir /\ ~should_skip_misc_folder(e.name))))
    /\ idx' = 1
    /\ done_set' = IF r THEN load_state(stateLedger) ELSE {}
    /\ undoLedger' = <<>> /\ stop' = FALSE /\ log' = <<>>
    /\ calls' = <<>> /\ collisions' = {} /\ fs0' = fs /\ stopped' = {} /\ raised' = {}
    /\ prev' = [run |-> run, dry_run |-> dry_run, calls |-> calls,
                clean |-> run > 0 /\ ~stop /\ NoError(log),
                stops |-> prev.stops + (IF stop THEN 1 ELSE 0),
                plan |-> IF dry_run THEN Decisions(log) ELSE <<>>]
    /\ UNCHANGED <<protect_sxxeyy, arg, res, seq, events, emitting, lastId, shown>>
    /\ UNCHANGED <<fs, listOrder, on_conflict, stateLedger, cache, stack, begun>>

\* main, line 3200: the series loop has run through the list
MainFinish ==
    /\ mpc = "loop" /\ stack = <<>> /\ idx > Len(series_paths)
    /\ mpc' = "finished"
    /\ UNCHANGED <<protect_sxxeyy, arg, res, seq, events, emitting, lastId, shown>>
    /\ UNCHANGED <<fs, listOrder, on_conflict, dry_run, resume, run, series_paths, idx,
                   done_set, stateLedger, undoLedger, cache, stop, stack, log, calls,
                   collisions, fs0, begun, stopped, raised, prev>>

\* main, lines 3202-3205: the stop check at the top of each series
MainStop ==
    /\ mpc = "loop" /\ stack = <<>> /\ idx <= Len(series_paths) /\ stop
    /\ mpc' = "finished"
    /\ log' = Append(log, [t |-> "stop", path |-> series_paths[idx]])
    /\ UNCHANGED <<protect_sxxeyy, arg, res, seq, events, emitting, lastId, shown>>
    /\ UNCHANGED <<fs, listOrder, on_conflict, dry_run, resume, run, series_paths, idx,
                   done_set, stateLedger, undoLedger, cache, stop, stack, calls,
                   collisions, fs0, begun, stopped, raised, prev>>

\* main, lines 3206-3209: a series with a "done" record is skipped
MainSkip ==
    /\ mpc = "loop" /\ stack = <<>> /\ idx <= Len(series_paths) /\ ~stop
    /\ series_paths[idx] \in done_set
    /\ idx' = idx + 1
    /\ log' = Append(log, [t |-> "resume_skip", path |-> series_paths[idx]])
    /\ UNCHANGED <<protect_sxxeyy, arg, res, seq, events, emitting, lastId, shown>>
    /\ UNCHANGED <<fs, listOrder, on_conflict, dry_run, resume, run, mpc, series_paths,
                   done_set, stateLedger, undoLedger, cache, stop, stack, calls,
                   collisions, fs0, begun, stopped, raised, prev>>

IdOf(t, p) == IF Exists(t, p) THEN (CHOOSE n \in t : n.path = p).id ELSE NoneV

\* history: process_series_folder is called on the folder at path p, at recursion depth d
Entered(p, d) == [run |-> run, path |-> p, id |-> IdOf(fs, p), depth |-> d, stop |-> stop]

\* main, lines 3210-3228: process_series_folder is called for the series
MainProcess ==
    /\ mpc = "loop" /\ stack = <<>> /\ idx <= Len(series_paths) /\ ~stop
    /\ series_paths[idx] \notin done_set
    /\ stack' = <<Frame(series_paths[idx], 0)>>
    /\ log' = Append(log, [t |-> "process", path |-> series_paths[idx]])
    /\ begun' = Append(begun, Entered(series_paths[idx], 0))
    /\ UNCHANGED <<protect_sxxeyy, arg, res, seq, events, emitting, lastId, shown>>
    /\ UNCHANGED <<fs, listOrder, on_conflict, dry_run, resume, run, mpc, series_paths, idx,
                   done_set, stateLedger, undoLedger, cache, stop, calls, collisions, fs0,
                   stopped, raised, prev>>

\* LogHub.request_stop, called by the /api/stop handler of the log server's thread
RequestStop ==
    /\ mpc = "loop" /\ ~stop /\ prev.stops < MaxStops
    /\ stop' = TRUE
    /\ log' = Append(log, [t |-> "stop_requested"])
    /\ UNCHANGED <<protect_sxxeyy, arg, res, seq, events, emitting, lastId, shown>>
    /\ UNCHANGED <<fs, listOrder, on_conflict, dry_run, resume, run, mpc, series_paths, idx,
                   done_set, stateLedger, undoLedger, cache, stack, calls, collisions, fs0,
                   begun, stopped, raised, prev>>

\* main --undo <file> --yes, on the ledger of the apply run that has just finished
Undo ==
    /\ mpc = "finished" /\ ~dry_run
    /\ LET w == apply_undo(World, undoLedger)
       IN  fs' = w.fs /\ log' = w.log
    /\ mpc' = "undone"
    /\ UNCHANGED <<protect_sxxeyy, arg, res, seq, events, emitting, lastId, shown>>
    /\ UNCHANGED <<listOrder, on_conflict, dry_run, resume, run, series_paths, idx, done_set,
                   stateLedger, undoLedger, cache, stop, stack, calls, collisions, fs0, begun,
                   stopped, raised, prev>>

\* an exception leaves the activations up to the nearest handler: the try block around a
\* nested show (line 2941), else the one of main (line 3230); the loop over the children
\* of a collection has none around the recursive call
RECURSIVE Unwind(_)
Unwind(stk) ==
    IF stk = <<>> THEN [stack |-> <<>>, main |-> "error"]
    ELSE LET p == stk[Len(stk)]
             below == SubSeq(stk, 1, Len(stk) - 1)
         IN  IF p.pc = "nested_wait"
             THEN [stack |-> below \o <<[p EXCEPT !.pc = "nested"]>>, main |-> "none"]
             ELSE Unwind(below)

\* the caller takes the value returned
ReturnTo(stk, ret) ==
    IF stk = <<>> THEN [stack |-> <<>>, main |-> "done"]
    ELSE LET p == stk[Len(stk)]
             below == SubSeq(stk, 1, Len(stk) - 1)
         IN  [stack |-> below \o <<[p EXCEPT !.child = ret,
                                             !.pc = IF p.pc = "coll_wait" THEN "coll_move"
                                                    ELSE "nested_move"]>>,
              main |-> "none"]

\* the outcome r of a step of the innermost activation takes effect; when the outermost
\* activation ends, main records the outcome of the series (lines 3229-3232)
Apply(r, ev) ==
    LET below == SubSeq(stack, 1, Len(stack) - 1)
        out == IF r.w.exc THEN Unwind(below)
               ELSE IF r.k = "ret" THEN ReturnTo(below, r.ret)
               ELSE IF r.k = "call"
                    THEN [stack |-> below \o <<r.f, Frame(r.ret, r.f.depth + 1)>>,
                          main |-> "none"]
               ELSE [stack |-> below \o <<r.f>>, main |-> "none"]
        sp_norm == series_paths[idx]
    IN  /\ fs' = r.w.fs /\ undoLedger' = r.w.undo /\ calls' = r.w.calls
        /\ collisions' = r.w.coll /\ cache' = r.w.cache
        /\ log' = IF r.w.exc
                  THEN Append(r.w.log, [t |-> "error",
                                        at |-> IF out.main = "error" THEN "main" ELSE "nested"])
                  ELSE r.w.log
        /\ stack' = out.stack
        /\ stateLedger' = IF out.main = "none" THEN stateLedger
                          ELSE append_state(stateLedger, [series_path |-> sp_norm,
                                                          status |-> out.main, run |-> run])
        /\ idx' = IF out.main = "none" THEN idx ELSE idx + 1
        /\ raised' = IF out.main = "error" THEN raised \cup {sp_norm} ELSE raised
        /\ stopped' = IF r.stopped /\ below = <<>> THEN stopped \cup {sp_norm} ELSE stopped
        /\ begun' = begun \o ev
        /\ UNCHANGED <<protect_sxxeyy, arg, res, seq, events, emitting, lastId, shown>>
        /\ UNCHANGED <<listOrder, on_conflict, dry_run, resume, run, mpc, series_paths,
                       done_set, stop, fs0, prev>>

Top == stack[Len(stack)]
Running == mpc = "loop" /\ stack # <<>>

\* process_series_folder is entered: lines 2568-2722
BeginStep ==
    /\ Running /\ Top.pc = "begin"
    /\ Apply(Begin(World, Top), <<>>)

Call(w, f, child_path) == [w |-> w, k |-> "call", f |-> f, ret |-> child_path,
                           stopped |-> FALSE]

\* lines 2600-2618: the next child of a collection is processed
CollNext ==
    /\ Running /\ Top.pc = "coll"
    /\ Apply(IF Top.kids = <<>> THEN Return(World, Top, Top.series_path)
             ELSE Call(World, [Top EXCEPT !.pc = "coll_wait", !.kids = Tail(@)],
                       Head(Top.kids)),
             IF Top.kids = <<>> THEN <<>> ELSE <<Entered(Head(Top.kids), Top.depth + 1)>>)

\* the processed child moves to the library root inside a try block (lines 2619-2622 for
\* a collection, line 2940 for a nested show)
Caught(w, step) ==
    IF w.exc THEN [Log(w, [t |-> "error", at |-> step]) EXCEPT !.exc = FALSE] ELSE w

MoveChild(step, pc) ==
    Cont(Caught(maybe_move_folder_to_dir([World EXCEPT !.step = step], Top.child,
                                         Top.lib_root, undo_logger),
                step),
         [Top EXCEPT !.pc = pc])

CollMove ==
    /\ Running /\ Top.pc = "coll_move"
    /\ Apply(MoveChild("collection_move", "coll"), <<>>)

\* line 2724-2725: the next scan directory is listed; after the last one, line 2871
ScanDir ==
    /\ Running /\ Top.pc = "scan" /\ Top.todo = <<>>
    /\ LET sd == IF Top.scan_dirs = <<>> THEN Top.nsp ELSE Head(Top.scan_dirs)
           l  == list_dir(fs, sd)
       IN  Apply(IF ~IsDir(fs, sd) THEN Cont(Raise(World), Top)
                 ELSE IF Top.scan_dirs = <<>>
                 THEN Cont(World,
                           [Top EXCEPT !.pc = "clean", !.entries = <<>>,
                                       !.seasons = Names(SelectSeq(l, LAMBDA e :
                                           e.is_dir /\ parse_season_from_text(e.name) # NoneV))])
                 ELSE Cont(World, [Top EXCEPT !.scan_dir = sd, !.scan_dirs = Tail(@),
                                              !.entries = l, !.todo = l]),
                 <<>>)

\* the stop check at the top of the loops over the entries (lines 2754-2757, 2883-2886)
Stopped(w, f) == [w |-> Log(w, [t |-> "stop", path |-> f.nsp]), k |-> "ret", f |-> f,
                  ret |-> f.nsp, stopped |-> TRUE]

\* lines 2752-2868: one entry of the scan directory
ScanEntry ==
    /\ Running /\ Top.pc = "scan" /\ Top.todo # <<>>
    /\ LET ent == Head(Top.todo)
       IN  Apply(IF stop THEN Stopped(World, Top)
                 ELSE Cont(IF ent.is_dir THEN ScanFolder(World, Top, ent)
                           ELSE ScanFile(World, Top, ent),
                           [Top EXCEPT !.todo = Tail(@)]),
                 <<>>)

\* lines 2872-2880: the next season directory is listed; after the last one, line 2919
CleanDir ==
    /\ Running /\ Top.pc = "clean" /\ Top.todo = <<>>
    /\ LET season_path == join_path(Top.nsp, Head(Top.seasons))
           l == list_dir(fs, season_path)
       IN  Apply(IF Top.seasons = <<>> THEN Cont(World, [Top EXCEPT !.pc = "nested"])
                 ELSE IF ~IsDir(fs, season_path) THEN Cont(Raise(World), Top)
                 ELSE Cont(cleanup_ads_in_dir(World, season_path),
                           [Top EXCEPT !.seasons = Tail(@), !.scan_dir = season_path,
                                       !.season = parse_season_from_text(Head(Top.seasons)),
                                       !.entries = l, !.todo = l]),
                 <<>>)

\* lines 2881-2914: one entry of the season directory
CleanEntry ==
    /\ Running /\ Top.pc = "clean" /\ Top.todo # <<>>
    /\ Apply(IF stop THEN Stopped(World, Top)
             ELSE Cont(CleanFile(World, Top, Head(Top.todo)), [Top EXCEPT !.todo = Tail(@)]),
             <<>>)

\* lines 2919-2939: the next nested show is processed; after the last one, line 2944
NestedNext ==
    /\ Running /\ Top.pc = "nested"
    /\ Apply(IF Top.kids = <<>> THEN Return(World, Top, Top.nsp)
             ELSE Call(World, [Top EXCEPT !.pc = "nested_wait", !.kids = Tail(@)],
                       Head(Top.kids)),
             IF Top.kids = <<>> THEN <<>> ELSE <<Entered(Head(Top.kids), Top.depth + 1)>>)

NestedMove ==
    /\ Running /\ Top.pc = "nested_move"
    /\ Apply(MoveChild("nested_move", "nested"), <<>>)

Next ==
    \/ \E d \in BOOLEAN, r \in BOOLEAN : StartRun(d, r)
    \/ MainFinish
    \/ MainStop
    \/ MainSkip
    \/ MainProcess
    \/ RequestStop
    \/ Undo
    \/ BeginStep
    \/ CollNext
    \/ CollMove
    \/ ScanDir
    \/ ScanEntry
    \/ CleanDir
    \/ CleanEntry
    \/ NestedNext
    \/ NestedMove

Spec == Init /\ [][Next]_vars

\* collections nested past the depth process_series_folder follows
PathA == <<"tv", "Pa collection">>
PathB == Append(PathA, "Pb collection")
PathC == Append(PathB, "Pc collection")
PathD == Append(PathC, "Pd collection")

LibDeep ==
    {Dir(<<"tv">>, 1), Dir(PathA, 2), Dir(Append(PathA, "qa"), 3),
     Dir(PathB, 4), Dir(Append(PathB, "qb"), 5),
     Dir(PathC, 6), Dir(Append(PathC, "qc"), 7),
     Dir(PathD, 8), Dir(Append(PathD, "qd"), 9),
     Dir(Append(PathD, "Show 2020"), 10), File(PathD \o <<"Show 2020", "01.mp4">>, 11)}

\* the runs over the libraries and the deep one; main runs process_series_folder step by
\* step until the series loop is through
InitDeep == InitWith({LibNested, LibDeep}, FALSE)

\* the steps of main and of process_series_folder while no stop is requested
Unstopped ==
    \/ MainFinish \/ MainSkip \/ MainProcess \/ BeginStep \/ CollNext \/ CollMove
    \/ ScanDir \/ ScanEntry \/ CleanDir \/ CleanEntry \/ NestedNext \/ NestedMove

Program ==
    \/ Unstopped
    \/ MainStop

\* main is sequential: while the series loop runs, one of the steps of Program can be
\* taken (ENABLED <<Program>>_vars is mpc = "loop"), and it is taken. This is
\* WF_vars(Program) with the enabling condition written out
ProgramFair == []<>(mpc # "loop") \/ []<><<Program>>_vars

SpecDeep == InitDeep /\ [][Next]_vars /\ ProgramFair

\* the runs that are made twice on the same tree, the server returning the entries of every
\* directory in ascending order the first time and in descending order the second
InitOrder == InitWith(Libraries, FALSE) /\ listOrder = "asc"

\* after the first run its layout is kept in res; the tree, the cache and the resume state
\* are as they were before the run, and the server lists in the other order
Relist ==
    /\ mpc = "finished" /\ run = 1 /\ res = <<>>
    /\ res' = <<fs>>
    /\ fs' = fs0 /\ cache' = <<>> /\ stateLedger' = <<>>
    /\ listOrder' = IF listOrder = "asc" THEN "desc" ELSE "asc"
    /\ UNCHANGED <<on_conflict, dry_run, resume, run, mpc, series_paths, idx, done_set,
                   undoLedger, stop, stack, log, calls, collisions, fs0, begun, stopped,
                   raised, prev, protect_sxxeyy, arg, seq, events, emitting, lastId, shown>>

\* no stop is requested in these runs
NextOrder ==
    \/ StartRun(FALSE, TRUE)
    \/ Unstopped
    \/ Relist

SpecOrder == InitOrder /\ [][NextOrder]_vars

\* the runs with PROTECT_SXXEYY=1
InitProtect == InitWith(Libraries \cup {LibTagged}, TRUE)

SpecProtect == InitProtect /\ [][Next]_vars

(***************************************************************************)
(* Functions studied on their own: arg is the input, res the result        *)
(***************************************************************************)
\* a series folder that has its canonical name, and the videos it may hold: in the folder
\* itself, in a quality folder and in its season folder
PlanRoot == <<"tv", "Show (2020)">>
PlanRootNames == <<"20200101.mp4", "2020-01-02.mp4", "E01.mp4", "S02E01.mkv">>
PlanMiscNames == <<"20200103.mp4", "E02.mp4">>
PlanSeasonNames == <<"Show (2020) - S01E01.mkv", "Show (2020) - S01E02.mkv">>

\* the files names[i], i in K, of the directory dir; the ids start after base
FilesOf(dir, names, K, base) == {File(Append(dir, names[i]), base + i) : i \in K}

PlanTree(R, M, S) ==
    {Dir(LibRoot, 1), Dir(PlanRoot, 2), Dir(Append(PlanRoot, "1080p"), 3),
     Dir(Append(PlanRoot, "S01"), 4)}
        \cup FilesOf(PlanRoot, PlanRootNames, R, 10)
        \cup FilesOf(Append(PlanRoot, "1080p"), PlanMiscNames, M, 20)
        \cup FilesOf(Append(PlanRoot, "S01"), PlanSeasonNames, S, 30)

PlanInputs ==
    {[f |-> "plan", t |-> PlanTree(R, M, S)] :
        R \in SUBSET (1..Len(PlanRootNames)), M \in SUBSET (1..Len(PlanMiscNames)),
        S \in SUBSET (1..Len(PlanSeasonNames))}

\* lines 2676-2722 on the tree t: the plans process_series_folder enters its scan loop with
PlansOf(t) ==
    BeginSeasons([World EXCEPT !.fs = t], PlanRoot, Frame(PlanRoot, 0),
                 [season_hint |-> NoneV], split_path(PlanRoot).base).f.plans

\* canonical names: series names as the resolver gives them, one of them with a
\* resolution word in the title; the seasons and episodes at the ends of the parser's
\* ranges; old names and tails with and without a resolution
NameSeries == {"Show (2020)", "Other (2019)", "4K Planet (2019)"}
NameSeasons == {0, 1, 10, 99}
NameEpisodes == {0, 1, 9, 10, 99, 100, 999}
NameOlds == {"a.mkv", "a 1080p.mp4", "a.4k.mkv"}
NameTails == {"", "720p"}

NameInputs ==
    {[f |-> "name", series |-> n, s |-> s, e |-> e, old |-> o, tail |-> t] :
        n \in NameSeries, s \in NameSeasons, e \in NameEpisodes, o \in NameOlds,
        t \in NameTails}

\* two loose videos of the series folder, handled one after the other, and what the
\* season folder S01 holds before
PlaceNames == <<"01.mp4", "E01.mp4", "Show.S01E01.mp4", "02.mp4">>
PlaceSeasonNames == <<"Show (2020) - S01E01.mp4", "Show (2020) - S01E01 (1).mp4">>

PlaceTree(i, j, S) ==
    {Dir(LibRoot, 1), Dir(PlanRoot, 2)}
        \cup FilesOf(PlanRoot, PlaceNames, {i, j}, 10)
        \cup (IF S = {} THEN {} ELSE {Dir(Append(PlanRoot, "S01"), 4)})
        \cup FilesOf(Append(PlanRoot, "S01"), PlaceSeasonNames, S, 30)

PlaceInputs ==
    {[f |-> "place", t |-> PlaceTree(p[1], p[2], S), first |-> PlaceNames[p[1]],
      second |-> PlaceNames[p[2]]] :
        p \in {q \in (1..Len(PlaceNames)) \X (1..Len(PlaceNames)) : q[1] # q[2]},
        S \in SUBSET (1..Len(PlaceSeasonNames))}

\* a directory that holds the desired name and some of its " (n)" forms: some of the
\* first three, the first n of them, or all of them
UniqueDesired == "a.mkv"
SuffixForm(desired, n) ==
    SplitStem(desired) \o " (" \o ToString(n) \o ")" \o SplitExt(desired)

UniqueTree(has, K) ==
    {Dir(LibRoot, 1)}
        \cup (IF has THEN {File(Append(LibRoot, UniqueDesired), 2)} ELSE {})
        \cup {File(Append(LibRoot, SuffixForm(UniqueDesired, n)), 2 + n) : n \in K}

UniqueInputs ==
    {[f |-> "unique", t |-> UniqueTree(has, K), desired |-> UniqueDesired] :
        has \in BOOLEAN,
        K \in SUBSET (1..3) \cup {1..n : n \in {MaxSuffix - 1, MaxSuffix, MaxSuffix + 1}}}

\* the answers of the AI to its four prompts; the first of each is None
ExtractAnswers ==
    {NullAnswer} \cup {[NullAnswer EXCEPT !.ok = TRUE, !.query = q] : q \in {"", "Show", " Other "}}
ProposeAnswers ==
    {NullAnswer,
     [NullAnswer EXCEPT !.ok = TRUE],
     [NullAnswer EXCEPT !.ok = TRUE, !.queries = <<"Nothing", "2020", " Other">>,
                        !.query = "Show"]}
ChooseAnswers ==
    {NullAnswer} \cup {[NullAnswer EXCEPT !.ok = TRUE, !.id = i] : i \in {NoneV, 0, 2, 7}}
InferAnswers ==
    {NullAnswer} \cup {[NullAnswer EXCEPT !.ok = TRUE, !.season = n] : n \in {NoneV, 2}}

\* the folders resolve_series is asked about, the English titles their files give, and the
\* caches: empty, or with the answer for "Show"
ResolveFolders == {"Show (2020)", "Show", "S", "Unknown", "Othe"}
ResolveTitles == {"", "Other"}
ResolveCaches == {<<>>, [k \in {"Show"} |-> [tv_id |-> 1, name |-> "Show", year |-> 2020]]}

ResolveInputs ==
    {[f |-> "resolve", folder |-> n, english |-> e, c |-> c,
      ai |-> [on |-> on, extract |-> x, propose |-> p, choose |-> h, infer |-> NullAnswer]] :
        n \in ResolveFolders, e \in ResolveTitles, c \in ResolveCaches,
        on \in {TRUE}, x \in ExtractAnswers, p \in ProposeAnswers, h \in ChooseAnswers}

\* the season the name and the directory of a loose file give, the folder of the series and
\* the directory scanned, AI_INFER_SEASON, and the AI
SeasonInputs ==
    {[f |-> "season", season |-> n, folder |-> d, scan |-> b, allow |-> a,
      ai |-> [NullAI EXCEPT !.infer = i]] :
        n \in {NoneV, 3}, d \in {"Show", "Show S1-S2", "Show Season 2", "Show_S2"},
        b \in {"", "1080p"}, a \in BOOLEAN, i \in InferAnswers}

\* the functions are applied in apply mode
\* folder names around a season range: something before it, the range, something after it
RangeBefore == <<"", "28 ", "The.100.", "Show.", "Show ", "E05 ", "2.">>
RangeForms == <<"S1-S3", "S1-3", "S01 - S03", "s1-s12", "Season 1-3">>
RangeAfter == <<"", " E05", "E05", " 28", ".5", " x 05", " S02E04", ".1080p", " ep2">>

\* the series folder holds the folder name, and the folder holds one video
RangeTree(name) ==
    {Dir(LibRoot, 1), Dir(PlanRoot, 2), Dir(Append(PlanRoot, name), 3),
     File(Append(Append(PlanRoot, name), "clip.mp4"), 10)}

RangeInputs ==
    {[f |-> "range", name |-> RangeBefore[i] \o RangeForms[j] \o RangeAfter[k],
      t |-> RangeTree(RangeBefore[i] \o RangeForms[j] \o RangeAfter[k])] :
        i \in 1..Len(RangeBefore), j \in 1..Len(RangeForms), k \in 1..Len(RangeAfter)}

\* a series folder with some of: a junk-marked text file, a plain text file, an ad link, a
\* junk-marked video, a subtitle folder, a season folder, a junk-marked folder
CleanFileNames == <<"www.ad.txt", "notes.txt", "www.site.url", "t.me.mp4">>
CleanDirNames == <<"Subs", "S01", "www.extras">>

CleanTree(F, D) ==
    {Dir(LibRoot, 1), Dir(PlanRoot, 2)}
        \cup FilesOf(PlanRoot, CleanFileNames, F, 10)
        \cup {Dir(Append(PlanRoot, CleanDirNames[i]), 20 + i) : i \in D}

\* the directory and the names a caller hands to remove: an existing or a missing
\* directory, no name, a name of the tree, a name that is not there
CleanInputs ==
    {[f |-> "clean", t |-> CleanTree(F, D), dir |-> d, names |-> ns] :
        F \in SUBSET (1..Len(CleanFileNames)), D \in SUBSET (1..Len(CleanDirNames)),
        d \in {PlanRoot, Append(LibRoot, "Gone")},
        ns \in {<<>>, <<"www.site.url">>, <<"missing.url">>}}

\* a video, with or without a subtitle of the same stem, that lies in the season folder
\* S01 of the series folder, and the same video lying loose in the series folder
PassNames == <<"01.mp4", "E01.mp4", "Show.S01E01.mkv", "S01E02.mkv",
               "Show (2020) - S01E01.mp4", "Show.S01E01.1080p.mkv", "www.S01E03.mp4",
               "clip.mp4">>
PassSeason == Append(PlanRoot, "S01")

PassFiles(dir, name, sub) ==
    {File(Append(dir, name), 10)}
        \cup (IF sub THEN {File(Append(dir, SplitStem(name) \o ".srt"), 11)} ELSE {})

PassInputs ==
    {[f |-> "pass", name |-> PassNames[i], sub |-> sub,
      inside |-> {Dir(LibRoot, 1), Dir(PlanRoot, 2), Dir(PassSeason, 4)}
                     \cup PassFiles(PassSeason, PassNames[i], sub),
      loose |-> {Dir(LibRoot, 1), Dir(PlanRoot, 2), Dir(PassSeason, 4)}
                     \cup PassFiles(PlanRoot, PassNames[i], sub)] :
        i \in 1..Len(PassNames), sub \in BOOLEAN}

\* a series folder with one or two season containers, each with some season folders and
\* a folder that is no season
FlatContainers == <<"S1-S3", "S4-S6">>
FlatSeasons == <<<<"S01", "S02">>, <<"S04", "S05">>>>

FlatContainer(c, K) ==
    {Dir(Append(PlanRoot, FlatContainers[c]), 10 * c),
     Dir(Append(Append(PlanRoot, FlatContainers[c]), "Extras"), 10 * c + 9)}
        \cup {Dir(Append(Append(PlanRoot, FlatContainers[c]), FlatSeasons[c][k]), 10 * c + k) :
                 k \in K}
        \cup {File(Append(Append(Append(PlanRoot, FlatContainers[c]), FlatSeasons[c][k]),
                          "01.mp4"), 10 * c + k + 4) : k \in K}

FlatInputs ==
    {[f |-> "flat", t |-> {Dir(LibRoot, 1), Dir(PlanRoot, 2)} \cup FlatContainer(1, A)
                              \cup (IF two THEN FlatContainer(2, B) ELSE {})] :
        A \in SUBSET {1, 2}, B \in SUBSET {1, 2}, two \in BOOLEAN}

\* videos without an episode number, with a special marker in the name or in the name of
\* their scan directory, with and without a date
SpecialRootNames == <<"pv.20200104.mp4", "pv.mp4", "20200105.mp4">>
SpecialDirNames == <<"20200106.mp4", "clip.mp4">>

SpecialTree(R, M) ==
    {Dir(LibRoot, 1), Dir(PlanRoot, 2), Dir(Append(PlanRoot, "PV"), 3)}
        \cup FilesOf(PlanRoot, SpecialRootNames, R, 10)
        \cup FilesOf(Append(PlanRoot, "PV"), SpecialDirNames, M, 20)

SpecialInputs ==
    {[f |-> "plan", t |-> SpecialTree(R, M)] :
        R \in SUBSET (1..Len(SpecialRootNames)), M \in SUBSET (1..Len(SpecialDirNames))}

\* a loose video, with or without a subtitle of its stem, whose name is taken in the
\* season folder it belongs to, by a video with or without a subtitle
ConflictNames == <<"01.mp4", "Show.S01E01.mkv", "Show (2020) - S01E01.mp4">>

ConflictInputs ==
    {[f |-> "conflict", name |-> ConflictNames[i],
      t |-> {Dir(LibRoot, 1), Dir(PlanRoot, 2), Dir(PassSeason, 4),
             File(Append(PlanRoot, ConflictNames[i]), 10),
             File(Append(PassSeason, ConflictNames[i]), 30)}
                \cup (IF sub
                      THEN {File(Append(PlanRoot, SplitStem(ConflictNames[i]) \o ".srt"), 11)}
                      ELSE {})
                \cup (IF held
                      THEN {File(Append(PassSeason, SplitStem(ConflictNames[i]) \o ".srt"), 31)}
                      ELSE {})] :
        i \in 1..Len(ConflictNames), sub \in BOOLEAN, held \in BOOLEAN}

\* two folders of one run, resolved one after the other with the cache of the run, and the
\* English titles their files give
CacheFolders == {"Show (2020)", "Show (2019)", "Show", "(2020)", "1080p", "Unknown"}
CacheTitles == {"", "Show", "Other"}

CacheInputs ==
    {[f |-> "cache", first |-> n1, english1 |-> e1, folder |-> n2, english |-> e2] :
        n1 \in CacheFolders, e1 \in CacheTitles, n2 \in CacheFolders, e2 \in CacheTitles}

InitFun ==
    /\ InitMain({LibLoose}, FALSE, FALSE)
    /\ arg \in PlanInputs \cup NameInputs \cup PlaceInputs \cup UniqueInputs
                \cup ResolveInputs \cup SeasonInputs \cup RangeInputs \cup CleanInputs
                \cup PassInputs \cup FlatInputs \cup SpecialInputs \cup ConflictInputs
                \cup CacheInputs
    /\ arg.f \in {"plan", "name", "resolve", "season", "range", "clean", "cache"}
           => on_conflict = "suffix"
    /\ arg.f \in {"name", "unique", "resolve", "season", "range", "clean", "cache"}
           => listOrder = "asc"
    /\ res = <<>>

\* infer_variety_and_special_episodes is applied to the scan directories of the tree
PlanStep ==
    /\ arg.f = "plan" /\ res = <<>>
    /\ res' = <<PlansOf(arg.t)>>
    /\ UNCHANGED <<fs, listOrder, on_conflict, dry_run, resume, run, mpc, series_paths, idx,
                   done_set, stateLedger, undoLedger, cache, stop, stack, log, calls,
                   collisions, fs0, begun, stopped, raised, prev, protect_sxxeyy, arg,
                   seq, events, emitting, lastId, shown>>

\* the name n1 is built, parsed, and built again from n1 and the tail parsed from it
Renamed(a, n1) ==
    [n1 |-> n1, parsed |-> parse_episode_from_name(n1),
     n2 |-> build_new_video_name(a.series, a.s, a.e, n1, parse_episode_from_name(n1).suffix)]

\* build_new_video_name is applied, and applied again to its own output
NameStep ==
    /\ arg.f = "name" /\ res = <<>>
    /\ res' = <<Renamed(arg, build_new_video_name(arg.series, arg.s, arg.e, arg.old, arg.tail))>>
    /\ UNCHANGED <<fs, listOrder, on_conflict, dry_run, resume, run, mpc, series_paths, idx,
                   done_set, stateLedger, undoLedger, cache, stop, stack, log, calls,
                   collisions, fs0, begun, stopped, raised, prev, protect_sxxeyy, arg,
                   seq, events, emitting, lastId, shown>>

\* the frame of the scan loop over the series folder of the tree t (line 2724)
PlaceFrame(t) ==
    [Frame(PlanRoot, 0) EXCEPT !.pc = "scan", !.desired = split_path(PlanRoot).base,
                               !.scan_dir = PlanRoot, !.entries = list_dir(t, PlanRoot)]

\* lines 2804-2868, for the video first and then for the video second
PlacedTwice(a, fr) ==
    ScanFile(ScanFile([World EXCEPT !.fs = a.t], fr, [name |-> a.first, is_dir |-> FALSE]),
             fr, [name |-> a.second, is_dir |-> FALSE])

\* two loose videos are moved to their season folder and take their names
PlaceStep ==
    /\ arg.f = "place" /\ res = <<>>
    /\ res' = <<PlacedTwice(arg, PlaceFrame(arg.t))>>
    /\ UNCHANGED <<fs, listOrder, on_conflict, dry_run, resume, run, mpc, series_paths, idx,
                   done_set, stateLedger, undoLedger, cache, stop, stack, log, calls,
                   collisions, fs0, begun, stopped, raised, prev, protect_sxxeyy, arg,
                   seq, events, emitting, lastId, shown>>

\* unique_name_in_parent is applied to the directory of the tree
UniqueStep ==
    /\ arg.f = "unique" /\ res = <<>>
    /\ res' = <<unique_name_in_parent(arg.t, LibRoot, arg.desired)>>
    /\ UNCHANGED <<fs, listOrder, on_conflict, dry_run, resume, run, mpc, series_paths, idx,
                   done_set, stateLedger, undoLedger, cache, stop, stack, log, calls,
                   collisions, fs0, begun, stopped, raised, prev, protect_sxxeyy, arg,
                   seq, events, emitting, lastId, shown>>

\* the context gather_series_context gives resolve_series
ResolveContext(a) == [year_hint |-> NoneV, english_title |-> a.english]

\* resolve_series is applied with the AI, and with no AI
ResolveStep ==
    /\ arg.f = "resolve" /\ res = <<>>
    /\ res' = <<[with |-> resolve_series_ai(arg.folder, arg.c, ResolveContext(arg), arg.ai),
                 without |-> resolve_series_ai(arg.folder, arg.c, ResolveContext(arg), NoAI),
                 plain |-> resolve_series(arg.folder, arg.c, ResolveContext(arg))]>>
    /\ UNCHANGED <<fs, listOrder, on_conflict, dry_run, resume, run, mpc, series_paths, idx,
                   done_set, stateLedger, undoLedger, cache, stop, stack, log, calls,
                   collisions, fs0, begun, stopped, raised, prev, protect_sxxeyy, arg,
                   seq, events, emitting, lastId, shown>>

\* the season of a loose file is settled with the AI, and with no AI
SeasonStep ==
    /\ arg.f = "season" /\ res = <<>>
    /\ res' = <<[with |-> season_fallback(arg.season, arg.ai, arg.allow, arg.folder, arg.scan),
                 without |-> season_fallback(arg.season, NoAI, arg.allow, arg.folder,
                                             arg.scan)]>>
    /\ UNCHANGED <<fs, listOrder, on_conflict, dry_run, resume, run, mpc, series_paths, idx,
                   done_set, stateLedger, undoLedger, cache, stop, stack, log, calls,
                   collisions, fs0, begun, stopped, raised, prev, protect_sxxeyy, arg,
                   seq, events, emitting, lastId, shown>>

\* what the parsers read in the folder name, and what the season pass (lines 2664-2673)
\* and the scan loop (lines 2758-2803) do with the folder
Ranged(a, w) ==
    [season |-> parse_season_from_text(a.name),
     pe |-> parse_episode_from_name(a.name),
     digits |-> EpisodeDigits(Stem2(a.name), parse_episode_from_name(a.name)),
     seasons |-> NormalizeSeasons(w, PlanRoot).calls,
     folder |-> ScanFolder(w, PlaceFrame(a.t), [name |-> a.name, is_dir |-> TRUE]).calls]

\* a folder with a season range in its name is parsed and met by the engine
RangeStep ==
    /\ arg.f = "range" /\ res = <<>>
    /\ res' = <<Ranged(arg, [World EXCEPT !.fs = arg.t])>>
    /\ UNCHANGED <<fs, listOrder, on_conflict, dry_run, resume, run, mpc, series_paths, idx,
                   done_set, stateLedger, undoLedger, cache, stop, stack, log, calls,
                   collisions, fs0, begun, stopped, raised, prev, protect_sxxeyy, arg,
                   seq, events, emitting, lastId, shown>>

\* cleanup_ads_in_dir is applied to the series folder, and AlistClient.remove to a
\* directory and a list of names
CleanStep ==
    /\ arg.f = "clean" /\ res = <<>>
    /\ res' = <<[cleaned |-> cleanup_ads_in_dir([World EXCEPT !.fs = arg.t], PlanRoot),
                 removed |-> client_remove([World EXCEPT !.fs = arg.t], arg.dir, arg.names)]>>
    /\ UNCHANGED <<fs, listOrder, on_conflict, dry_run, resume, run, mpc, series_paths, idx,
                   done_set, stateLedger, undoLedger, cache, stop, stack, log, calls,
                   collisions, fs0, begun, stopped, raised, prev, protect_sxxeyy, arg,
                   seq, events, emitting, lastId, shown>>

\* the frame of the second pass over the season folder S01 of the tree t (line 2880)
PassFrame(t) ==
    [Frame(PlanRoot, 0) EXCEPT !.pc = "clean", !.desired = split_path(PlanRoot).base,
                               !.scan_dir = PassSeason, !.season = 1,
                               !.entries = list_dir(t, PassSeason),
                               !.todo = list_dir(t, PassSeason)]

\* lines 2881-2914 for every entry of the season folder
RECURSIVE CleanFiles(_, _, _)
CleanFiles(w, fr, todo) ==
    IF todo = <<>> THEN w ELSE CleanFiles(CleanFile(w, fr, Head(todo)), fr, Tail(todo))

\* the second pass finds the video in the season folder; the scan loop finds it loose
PassStep ==
    /\ arg.f = "pass" /\ res = <<>>
    /\ res' = <<[second |-> CleanFiles([World EXCEPT !.fs = arg.inside],
                                       PassFrame(arg.inside), list_dir(arg.inside, PassSeason)),
                 ninth |-> ScanFile([World EXCEPT !.fs = arg.loose], PlaceFrame(arg.loose),
                                    [name |-> arg.name, is_dir |-> FALSE])]>>
    /\ UNCHANGED <<fs, listOrder, on_conflict, dry_run, resume, run, mpc, series_paths, idx,
                   done_set, stateLedger, undoLedger, cache, stop, stack, log, calls,
                   collisions, fs0, begun, stopped, raised, prev, protect_sxxeyy, arg,
                   seq, events, emitting, lastId, shown>>

\* lines 2645-2654 are applied to the series folder of the tree
FlatStep ==
    /\ arg.f = "flat" /\ res = <<>>
    /\ res' = <<Flatten([World EXCEPT !.fs = arg.t], PlanRoot)>>
    /\ UNCHANGED <<fs, listOrder, on_conflict, dry_run, resume, run, mpc, series_paths, idx,
                   done_set, stateLedger, undoLedger, cache, stop, stack, log, calls,
                   collisions, fs0, begun, stopped, raised, prev, protect_sxxeyy, arg,
                   seq, events, emitting, lastId, shown>>

\* lines 2804-2868 for a loose video whose name is taken in its season folder
ConflictStep ==
    /\ arg.f = "conflict" /\ res = <<>>
    /\ res' = <<ScanFile([World EXCEPT !.fs = arg.t], PlaceFrame(arg.t),
                         [name |-> arg.name, is_dir |-> FALSE])>>
    /\ UNCHANGED <<fs, listOrder, on_conflict, dry_run, resume, run, mpc, series_paths, idx,
                   done_set, stateLedger, undoLedger, cache, stop, stack, log, calls,
                   collisions, fs0, begun, stopped, raised, prev, protect_sxxeyy, arg,
                   seq, events, emitting, lastId, shown>>

\* resolve_series for a folder, with the cache an earlier folder of the run has left and
\* with an empty cache
CacheStep ==
    /\ arg.f = "cache" /\ res = <<>>
    /\ res' = <<[stored |-> resolve_series(arg.first, <<>>,
                                          [year_hint |-> NoneV,
                                           english_title |-> arg.english1]).cache,
                 hit |-> resolve_series(arg.folder,
                                        resolve_series(arg.first, <<>>,
                                                       [year_hint |-> NoneV,
                                                        english_title |-> arg.english1]).cache,
                                        ResolveContext(arg)),
                 fresh |-> resolve_series(arg.folder, <<>>, ResolveContext(arg))]>>
    /\ UNCHANGED <<fs, listOrder, on_conflict, dry_run, resume, run, mpc, series_paths, idx,
                   done_set, stateLedger, undoLedger, cache, stop, stack, log, calls,
                   collisions, fs0, begun, stopped, raised, prev, protect_sxxeyy, arg,
                   seq, events, emitting, lastId, shown>>

NextFun ==
    \/ PlanStep
    \/ NameStep
    \/ PlaceStep
    \/ UniqueStep
    \/ ResolveStep
    \/ SeasonStep
    \/ RangeStep
    \/ CleanStep
    \/ PassStep
    \/ FlatStep
    \/ ConflictStep
    \/ CacheStep

SpecFun == InitFun /\ [][NextFun]_vars


(***************************************************************************)
(* Properties                                                              *)
(***************************************************************************)
\* the undo record a rename or a move call is to leave
AsRecord(c) ==
    IF c.op = "rename"
    THEN [op |-> "rename_path", parent |-> c.parent, old |-> c.old, new |-> c.new]
    ELSE [op |-> "move", src_dir |-> c.src_dir, dst_dir |-> c.dst_dir, names |-> c.names]

\* the renames and moves among the calls, as undo records
Executed(cs) ==
    LET rm == SelectSeq(cs, LAMBDA c : c.op \in {"rename", "move"})
    IN  [i \in 1..Len(rm) |-> AsRecord(rm[i])]

\* a is b with some of its elements left out
RECURSIVE IsSubseq(_, _)
IsSubseq(a, b) ==
    IF a = <<>> THEN TRUE
    ELSE IF b = <<>> THEN FALSE
    ELSE IF Head(a) = Head(b) THEN IsSubseq(Tail(a), Tail(b))
    ELSE IsSubseq(a, Tail(b))

LogKinds == {log[i].t : i \in 1..Len(log)}

\* C1: in dry-run mode no mutating call (mkdir, rename, move, remove) reaches the
\* filesystem collaborator, at any recursion depth: a dry run has executed no call and
\* the tree is the one the run started on
C1_DryRunNeverMutates == dry_run => calls = <<>> /\ fs = fs0

\* a dry run that has decided a mkdir, a rename and a move, and has entered a folder
\* below the top level, is over
C1_Witness ==
    /\ dry_run /\ mpc = "finished"
    /\ {"mkdir", "rename", "move"} \subseteq LogKinds
    /\ \E i \in 1..Len(begun) : begun[i].run = run /\ begun[i].depth > 0

\* C2: after the undo ledger of an apply run has been replayed in reverse, every item
\* the run found is back at the path and under the name it had before the run
C2_UndoRestores == mpc = "undone" => \A n \in fs0 : n \in fs

\* C3: in apply mode every rename and every move executed on the filesystem has
\* appended exactly one record to the undo ledger, whichever step issued it
C3_EveryCallRecorded == ~dry_run => undoLedger = Executed(calls)

\* C4: an undo record is written only for a rename or a move that has been executed:
\* none in dry-run mode, none for an operation that was skipped or that failed
C4_RecordsOnlyExecuted ==
    /\ dry_run => undoLedger = <<>>
    /\ IsSubseq(undoLedger, Executed(calls))

\* an apply run that has recorded operations and has abandoned one on a conflict is over
C4_Witness ==
    /\ ~dry_run /\ mpc = "finished" /\ ~stop /\ undoLedger # <<>>
    /\ "skip" \in LogKinds

\* C5: a second run on the tree a first apply run has produced, that run having neither
\* been stopped nor met an error nor abandoned an operation, executes no rename and no move
C5_SecondRunIdle ==
    (run = 2 /\ prev.run = 1 /\ ~prev.dry_run /\ prev.clean)
        => \A i \in 1..Len(calls) : calls[i].op \notin {"rename", "move"}

\* C6: no rename and no move is issued onto a name that exists in the directory the
\* item is renamed in or moved into
C6_NoCallOntoExistingName == collisions = {}

\* C7: a top-level series that an earlier run, neither stopped nor in error, recorded as
\* "done" is not handed to process_series_folder by a later run with resume enabled
C7_DoneNeverReprocessed ==
    \A i, j \in 1..Len(begun) :
        ~ (/\ begun[i].run = prev.run /\ begun[j].run = run /\ run = 2 /\ resume /\ prev.clean
           /\ begun[i].depth = 0 /\ begun[j].depth = 0
           /\ begun[i].id = begun[j].id
           /\ \E k \in 1..Len(stateLedger) :
                  stateLedger[k] = [series_path |-> begun[i].path, status |-> "done",
                                    run |-> begun[i].run])

\* C8: a series that a stop request interrupted inside the loose-file loop or the
\* season-cleanup loop is not recorded as "done" in the resume ledger
C8_InterruptedNotDone ==
    \A k \in 1..Len(stateLedger) :
        (stateLedger[k].run = run /\ stateLedger[k].status = "done")
            => stateLedger[k].series_path \notin stopped

\* C9: once stop has been requested, process_series_folder is called on no folder: no
\* top-level series, no child of a collection, no nested show
C9_NoCallAfterStop == \A i \in 1..Len(begun) : ~begun[i].stop

\* C10: a series whose processing raises is recorded with the outcome "error" and the
\* loop goes on: a run that no stop request ended has skipped or recorded every series
C10_FailureDoesNotAbort ==
    /\ \A sp \in raised :
           \E k \in 1..Len(stateLedger) :
               stateLedger[k] = [series_path |-> sp, status |-> "error", run |-> run]
    /\ (mpc \in {"finished", "undone"} /\ ~stop /\ run > 0)
           => \A i \in 1..Len(series_paths) :
                  \/ series_paths[i] \in done_set
                  \/ \E k \in 1..Len(stateLedger) :
                         /\ stateLedger[k].series_path = series_paths[i]
                         /\ stateLedger[k].run = run

\* a series has raised, a series that comes after it in the list has been processed and
\* recorded as "done", and the run is over without a stop request
C10_Witness ==
    \E i, j \in 1..Len(series_paths) :
        /\ mpc = "finished" /\ ~stop
        /\ i < j /\ series_paths[i] \in raised
        /\ \E k \in 1..Len(stateLedger) :
               stateLedger[k] = [series_path |-> series_paths[j], status |-> "done",
                                 run |-> run]

\* the lines the current run has appended to the resume ledger
RunLines == SelectSeq(stateLedger, LAMBDA o : o.run = run)

\* the calls of process_series_folder the main loop has made in the current run
MainCalls == SelectSeq(begun, LAMBDA b : b.run = run /\ b.depth = 0)

\* a is an initial part of b
IsPrefixSeq(a, b) == Len(a) <= Len(b) /\ SubSeq(b, 1, Len(a)) = a

\* the ledger of the current run holds one line, "done" or "error", for each call of the
\* main loop that is over, in the order of the calls, and no other line
OneLinePerCall ==
    /\ Len(RunLines) = Len(MainCalls) - (IF stack # <<>> THEN 1 ELSE 0)
    /\ \A k \in 1..Len(RunLines) :
           /\ RunLines[k].series_path = MainCalls[k].path
           /\ RunLines[k].status \in {"done", "error"}

\* C11: each call of process_series_folder by the main loop appends exactly one outcome
\* line ("done" or "error") to the resume ledger, whether it returns or raises; a series
\* skipped by resume or not reached because of a stop appends none; the lines the
\* ledger holds are never rewritten
C11_OneOutcomePerCall == [][OneLinePerCall' /\ IsPrefixSeq(stateLedger, stateLedger')]_vars

\* a second run is over in which a series was skipped by resume and another raised, the
\* ledger holding a "done" line of the first run
C11_Witness ==
    /\ run = 2 /\ mpc = "finished" /\ "resume_skip" \in LogKinds
    /\ raised # {}
    /\ \E k \in 1..Len(stateLedger) : stateLedger[k].run = 1 /\ stateLedger[k].status = "done"

\* the rename calls the current run has executed on a video whose name held SxxEyy
TaggedRenames ==
    {i \in 1..Len(calls) : /\ calls[i].op = "rename"
                           /\ IsVideoName(calls[i].old)
                           /\ SxxEyyMatches(calls[i].old) # {}}

\* C12: a video file whose name already contains SxxEyy (in either letter case) is never
\* renamed, by no step of the reconciliation; it may only be moved
C12_TaggedNeverRenamed == TaggedRenames = {}

\* a video whose name carries an explicit SxxEyy / NxM marker
Tagged(name) == IsVideoName(name) /\ parse_episode_from_name(name).already

\* the folder names the resolver gives: "<name> (<year>)"
DesiredNames == {Catalog[i].name \o " (" \o ToString(Catalog[i].year) \o ")" :
                     i \in 1..Len(Catalog)}

\* new is the name target, or target with " (n)" before its extension
Suffixed(target, new) ==
    \/ new = target
    \/ \E n \in 1..MaxSuffix :
           new = SplitStem(target) \o " (" \o ToString(n) \o ")" \o SplitExt(target)

\* the name holds an ad marker and the new name is the canonical one
CleanRename(old, new) ==
    /\ contains_junk_marker(old)
    /\ \E series \in DesiredNames :
           Suffixed(build_new_video_name(series, parse_episode_from_name(old).s,
                                         parse_episode_from_name(old).ep, old,
                                         parse_episode_from_name(old).suffix), new)

\* the name is a bare SxxEyy and the new name is the old one behind the series name
PrefixRename(old, new) ==
    /\ fix_bare_sxxeyy
    /\ \E series \in DesiredNames :
           /\ needs_series_prefix_for_sxxeyy(old, series)
           /\ Suffixed(build_prefixed_sxxeyy_name(series, parse_episode_from_name(old).s,
                                                  parse_episode_from_name(old).ep, old), new)

\* the rename calls of the current run on a video that carried a marker
MarkedRenames == {i \in 1..Len(calls) : calls[i].op = "rename" /\ Tagged(calls[i].old)}

\* the rename maybe_move issues before a move onto a taken name: " (n)" is added
ConflictRename(c) ==
    /\ c.step \in {"loose_file.conflict", "episode_folder.conflict"}
    /\ c.new # c.old /\ Suffixed(c.old, c.new)

NumberedIn(t, dir, dir_season) ==
    {[season |-> IF parse_episode_from_name(n).s # NoneV
                 THEN parse_episode_from_name(n).s ELSE dir_season,
      ep |-> parse_episode_from_name(n).ep] :
        n \in {m \in Range(VideoNames(t, dir)) : parse_episode_from_name(m).ep # NoneV}}

\* the numbered videos of the series folder nsp and of its directories
Numbered(t, nsp) ==
    NumberedIn(t, nsp, DefaultSeason)
        \cup UNION {NumberedIn(t, Append(nsp, d),
                               IF parse_season_from_text(d) # NoneV
                               THEN parse_season_from_text(d) ELSE DefaultSeason) :
                        d \in {k \in KidNames(t, nsp) : IsDir(t, Append(nsp, k))}}

PlanKeys(P) == {[season |-> p.season, ep |-> p.ep] : p \in P}

\* C14: the episode numbers the planner assigns are pairwise distinct within a season, and
\* none is the number of a numbered video of that season, so that no two videos of a
\* season end up with the same SxxEyy
C14_PlannedNumbersUnique ==
    (arg # <<>> /\ arg.f = "plan" /\ res # <<>>) =>
        /\ \A p, q \in res[1] : (p.season = q.season /\ p.ep = q.ep) => p = q
        /\ PlanKeys(res[1]) \cap Numbered(arg.t, PlanRoot) = {}


\* the calls a run made on the filesystem collaborator, written as decisions
OperationOf(c) ==
    IF c.op = "mkdir" THEN [op |-> "mkdir", path |-> c.path]
    ELSE IF c.op = "rename"
         THEN [op |-> "rename", path |-> Append(c.parent, c.old), new |-> c.new]
    ELSE [op |-> "move", src |-> c.src_dir, dst |-> c.dst_dir, names |-> c.names]

Operations(c) == [i \in 1..Len(c) |-> OperationOf(c[i])]

\* an apply run that has run through, without a stop request, over the tree a dry run
\* without a stop request has just run through
ApplyAfterDryRun ==
    /\ run = 2 /\ mpc = "finished" /\ ~dry_run /\ ~resume /\ ~stop
    /\ prev.run = 1 /\ prev.dry_run /\ prev.stops = 0

\* C15: the mkdir, rename and move decisions a dry run logs, with their source paths and
\* predicted names, are the operations an apply run performs on the same tree, in the
\* same order
C15_DryRunTraceIsApplyTrace == ApplyAfterDryRun => prev.plan = Operations(calls)


\* C16: the canonical name n1 built for (series, s, e) parses back to the same season and
\* episode, and building the name again from n1 gives n1, for every series name, season,
\* episode, extension and quality tail
C16_CanonicalNameIsFixpoint ==
    (arg # <<>> /\ arg.f = "name" /\ res # <<>>) =>
        /\ res[1].parsed.s = arg.s /\ res[1].parsed.ep = arg.e
        /\ res[1].n2 = res[1].n1


\* the canonical name of a loose video of the series folder PlanRoot
CanonicalOf(n) ==
    build_new_video_name(split_path(PlanRoot).base,
                         IF parse_episode_from_name(n).s # NoneV
                         THEN parse_episode_from_name(n).s ELSE DefaultSeason,
                         parse_episode_from_name(n).ep, n, parse_episode_from_name(n).suffix)

\* two videos with the same canonical name have been placed under the suffix policy, in a
\* season folder that held neither that name nor its " (1)" form
TwinsPlaced ==
    /\ arg # <<>> /\ arg.f = "place" /\ res # <<>> /\ on_conflict = "suffix"
    /\ CanonicalOf(arg.first) = CanonicalOf(arg.second)
    /\ ~IsDir(arg.t, Append(PlanRoot, "S01"))

\* the first video holds the canonical name, the second that name with " (1)"
TwinsNamed ==
    /\ IdOf(res[1].fs, PlanRoot \o <<"S01", CanonicalOf(arg.first)>>)
           = IdOf(arg.t, Append(PlanRoot, arg.first))
    /\ IdOf(res[1].fs, PlanRoot \o <<"S01", SuffixForm(CanonicalOf(arg.first), 1)>>)
           = IdOf(arg.t, Append(PlanRoot, arg.second))

\* unique_name_in_parent has been applied, under the suffix policy, to a directory that
\* holds the desired name
UniqueConflict ==
    /\ arg # <<>> /\ arg.f = "unique" /\ res # <<>> /\ on_conflict = "suffix"
    /\ arg.desired \in KidNames(arg.t, LibRoot)

\* n is the smallest n >= 1 whose " (n)" form of the desired name is not in the directory
SmallestFree(n) ==
    /\ SuffixForm(arg.desired, n) \notin KidNames(arg.t, LibRoot)
    /\ \A m \in 1..(n - 1) : SuffixForm(arg.desired, m) \in KidNames(arg.t, LibRoot)

\* C17 as stated: under the suffix policy, of two files with the same canonical name in
\* one season folder the first keeps the name and the second takes it with " (1)" before
\* the extension; unique_name_in_parent returns the desired name with the smallest n >= 1
\* whose " (n)" form is not among the siblings
C17_SmallestSuffix ==
    /\ TwinsPlaced => TwinsNamed
    /\ UniqueConflict =>
           \E n \in 1..(MaxSuffix + 2) : SmallestFree(n) /\ res[1] = SuffixForm(arg.desired, n)

\* C17, amended: as above, with n ranging over 1..199; when the forms " (1)" to " (199)"
\* are all among the siblings, unique_name_in_parent returns the empty string and the
\* operation is abandoned
C17_SmallestSuffixUpTo199 ==
    /\ TwinsPlaced => TwinsNamed
    /\ UniqueConflict =>
           \/ \E n \in 1..MaxSuffix : SmallestFree(n) /\ res[1] = SuffixForm(arg.desired, n)
           \/ /\ \A n \in 1..MaxSuffix : ~SmallestFree(n)
              /\ res[1] = ""

\* the second of two videos with the same canonical name has taken the " (1)" form
C17_Witness ==
    /\ TwinsPlaced /\ TwinsNamed
    /\ \E i \in 1..Len(res[1].calls) :
           /\ res[1].calls[i].op = "rename"
           /\ res[1].calls[i].new = SuffixForm(CanonicalOf(arg.first), 1)


\* process_series_folder is about to be entered for a folder past the depth bound
TooDeepEntry == Running /\ Top.pc = "begin" /\ Top.depth > MaxDepth

\* the entry leaves the tree, the calls, the ledgers and the cache alone, logs the
\* "too deep" outcome and returns to its caller
TooDeepSkipped ==
    /\ fs' = fs /\ calls' = calls /\ undoLedger' = undoLedger /\ cache' = cache
    /\ log' = Append(log, [t |-> "too_deep", path |-> Top.series_path])
    /\ Len(stack') = Len(stack) - 1

\* the folders the current run has met past the depth bound
TooDeepPaths == {log[i].path : i \in {j \in 1..Len(log) : log[j].t = "too_deep"}}

\* the calls of the current run whose subject is the item at path p
CallsOn(p) ==
    {i \in 1..Len(calls) :
        \/ /\ calls[i].op = "rename"
           /\ Append(calls[i].parent, calls[i].old) = p
        \/ /\ calls[i].op = "move"
           /\ \E k \in 1..Len(calls[i].names) : Append(calls[i].src_dir, calls[i].names[k]) = p}

AllNull(ai) == ~ai.extract.ok /\ ~ai.propose.ok /\ ~ai.choose.ok /\ ~ai.infer.ok

\* C19: with an AI whose every chat_json call returns None, resolve_series and the season
\* fallback of the loose-file loop give what they give with no AI: the same series or none,
\* the same cache, the same season
C19_NullAiIsNoAi ==
    (res # <<>> /\ arg.f \in {"resolve", "season"} /\ arg.ai.on /\ AllNull(arg.ai)) =>
        /\ res[1].with = res[1].without
        /\ arg.f = "resolve" => res[1].with = res[1].plain

\* resolve_series has asked an AI that answers None to choose between two candidates, and
\* has kept the first; an AI that names the second would have changed the series
C19_Witness ==
    /\ res # <<>> /\ arg.f = "resolve" /\ arg.ai.on /\ AllNull(arg.ai)
    /\ res[1].with.found /\ res[1].with.name = "Show"
    /\ resolve_series_ai(arg.folder, arg.c, ResolveContext(arg),
                         [arg.ai EXCEPT !.choose = [NullAnswer EXCEPT !.ok = TRUE, !.id = 2]]).name
           = "Other"

\* C20: the run on a tree listed in ascending order and the run on the same tree listed in
\* descending order end with the same layout: every file and folder is at the same path
C20_LayoutIndependentOfOrder ==
    (mpc = "finished" /\ run = 2 /\ res # <<>>) => fs = res[1]

\* ---------------------------------------------------------------------------------------
\* C21: names with a season range
\* ---------------------------------------------------------------------------------------

RangeCase == arg.f = "range" /\ res # <<>> /\ HasSeasonRange(Strip(arg.name))

\* C21: for every name in which the season-range pattern is detected,
\* parse_season_from_text returns None, parse_episode_from_name reads the episode from no
\* digit of the range, the season pass never renames the folder and the scan loop never
\* handles it as a per-episode folder
C21_RangeNeverEpisodeFolder ==
    RangeCase =>
        /\ res[1].season = NoneV
        /\ res[1].digits \cap RangeSpan(Stem2(arg.name)) = {}
        /\ res[1].seasons = <<>>
        /\ res[1].folder = <<>>

\* ---------------------------------------------------------------------------------------
\* C22: what the ancillary cleanup may delete
\* ---------------------------------------------------------------------------------------

\* the entries the cleanup must spare: text files, subtitle folders, season folders
Spared(n) ==
    LET name == n.path[Len(n.path)]
    IN  /\ Len(n.path) = Len(PlanRoot) + 1
        /\ IF n.dir THEN is_subtitle_dir_name(name) \/ parse_season_from_text(name) # NoneV
           ELSE Lower(SplitExt(name)) = ".txt"

CallsOnMissing == {i \in 1..Len(log) : log[i].t = "not_found_call"}

\* C23: every rename and every move the engine issues names a source item that exists at
\* that path at the moment of the call, subtitle sidecars that go with more than one video
\* of the scanned directory included: no call is decided from a listing taken before an
\* earlier mutation of the directory
C23_SourceExistsAtCall == CallsOnMissing = {}

\* ---------------------------------------------------------------------------------------
\* C24: the second pass over the season folders
\* ---------------------------------------------------------------------------------------

\* the names of the files of the season folder S01 in the tree t
SeasonFileNames(t) == {n.path[Len(n.path)] : n \in {k \in Kids(t, PassSeason) : ~k.dir}}

\* C24: with rename_files on and protection off, the second pass gives a video that lies in
\* a season folder and yields an episode number the name the loose-file step gives the same
\* video, the canonical name, and its sidecars follow: the season folder ends with the
\* files the loose-file step would have put there
C24_SecondPassAsStepNine ==
    (arg.f = "pass" /\ res # <<>> /\ rename_files /\ ~protect_sxxeyy
       /\ parse_episode_from_name(arg.name).ep # NoneV) =>
        /\ CanonicalOf(arg.name) \in SeasonFileNames(res[1].second.fs)
        /\ SeasonFileNames(res[1].second.fs) = SeasonFileNames(res[1].ninth.fs)

\* ---------------------------------------------------------------------------------------
\* C25: season containers
\* ---------------------------------------------------------------------------------------

\* the season containers of the series folder, and the season folders they hold
ContainersOf(t) ==
    {n \in Kids(t, PlanRoot) : n.dir /\ is_season_container_folder(n.path[Len(n.path)])}

SeasonsIn(t, c) ==
    {n \in Kids(t, c.path) : n.dir /\ parse_season_from_text(n.path[Len(n.path)]) # NoneV}

\* C25: for every child folder of the series folder whose name denotes a season range, each
\* of its season folders is moved up into the series folder, and the container is neither
\* renamed nor removed, also when the series folder holds more than one such container
C25_EveryContainerFlattened ==
    (arg.f = "flat" /\ res # <<>>) =>
        \A c \in ContainersOf(arg.t) :
            /\ c \in res[1].fs
            /\ \A sd \in SeasonsIn(arg.t, c) :
                   \E m \in Kids(res[1].fs, PlanRoot) : m.id = sd.id /\ m.dir

\* ---------------------------------------------------------------------------------------
\* C26: specials
\* ---------------------------------------------------------------------------------------

\* the videos of the scan directories of the tree (the series folder and its folders that
\* are no season) that carry no episode number and have a special marker in their name or
\* in the name of their directory
MarkedSpecials(t) ==
    {n \in t : /\ ~n.dir /\ IsVideoName(n.path[Len(n.path)])
               /\ Len(n.path) \in {Len(PlanRoot) + 1, Len(PlanRoot) + 2}
               /\ IsPrefix(PlanRoot, n.path)
               /\ parse_season_from_text(n.path[Len(n.path) - 1]) = NoneV
               /\ parse_episode_from_name(n.path[Len(n.path)]).ep = NoneV
               /\ \/ is_special_episode_name(n.path[Len(n.path)])
                  \/ is_special_episode_name(n.path[Len(n.path) - 1])}

\* C26: a video that carries no episode number and has a special marker in its name or in
\* the name of its scan directory is planned by the variety planner as a special of
\* season 0, whatever season is guessed for its directory
C26_MarkedPlannedAsSpecial ==
    (arg.f = "plan" /\ res # <<>>) =>
        \A n \in MarkedSpecials(arg.t) :
            \E p \in res[1] : /\ Append(p.dir, p.name) = n.path
                              /\ p.season = 0 /\ p.special

\* ---------------------------------------------------------------------------------------
\* C27: the resume ledger after a dry run
\* ---------------------------------------------------------------------------------------

\* the run that wrote the ledger line k was a dry run
WrittenDry(k) == IF stateLedger[k].run = run THEN dry_run ELSE prev.dry_run

\* C27: a dry run writes no "done" line to the resume ledger, and an apply run with resume
\* enabled that follows a dry run skips no series
C27_DryRunLeavesNoDone ==
    /\ \A k \in 1..Len(stateLedger) : stateLedger[k].status = "done" => ~WrittenDry(k)
    /\ (run = 2 /\ ~dry_run /\ resume /\ prev.run = 1 /\ prev.dry_run)
           => "resume_skip" \notin LogKinds

\* ---------------------------------------------------------------------------------------
\* C28: the rename after a move that met a taken name
\* ---------------------------------------------------------------------------------------

\* maybe_move has renamed the loose video to a " (n)" name and moved it
MovedUnderSuffix(w) ==
    \E i \in 1..Len(w.calls) :
        /\ w.calls[i].op = "rename" /\ w.calls[i].step = "loose_file.conflict"
        /\ w.calls[i].old = arg.name

\* the files the season folder held before the step are where they were, under their names
HeldUntouched(t, w) == \A n \in t : (~n.dir /\ IsPrefix(PassSeason, n.path)) => n \in w.fs

\* C28: when maybe_move has renamed the loose video to a " (n)" name and moved it, the
\* renames the loose-file step issues next, for the video and for its sidecars, are applied
\* to the items just moved, never to the files of the season folder that hold the original
\* names
C28_RenameOnMovedItem ==
    (arg.f = "conflict" /\ res # <<>> /\ MovedUnderSuffix(res[1]))
        => HeldUntouched(arg.t, res[1])

\* ---------------------------------------------------------------------------------------
\* C29: the identity cache of resolve_series
\* ---------------------------------------------------------------------------------------

\* the series an answer of resolve_series names
IdentityOf(m) == IF m.found THEN <<m.name, m.year>> ELSE <<>>

\* C29: resolve_series is cache-transparent: the identity it returns for a folder and its
\* context with the cache an earlier folder of the run has left (an entry under the same
\* cleaned key, the empty key included) is the identity a fresh resolution with an empty
\* cache returns
C29_CacheTransparent ==
    (arg.f = "cache" /\ res # <<>>) => IdentityOf(res[1].hit) = IdentityOf(res[1].fresh)

(***************************************************************************)
(* The log hub (LogHub) under concurrent emit calls                        *)
(***************************************************************************)
\* the events emitted in the runs studied, and LogHub.keep (500 by default)
MaxEvents == 4
Keep == 3

\* LogHub.emit up to the return of _next_id: the id is taken under the lock. In the handler
\* thread this is request_stop, which sets the stop event before it emits
EmitNextId(t) ==
    /\ emitting[t] = 0 /\ seq < MaxEvents
    /\ seq' = seq + 1
    /\ emitting' = [emitting EXCEPT ![t] = seq + 1]
    /\ stop' = (stop \/ t = "handler")
    /\ UNCHANGED <<fs, listOrder, on_conflict, dry_run, resume, run, mpc, series_paths, idx,
                   done_set, stateLedger, undoLedger, cache, stack, log, calls, collisions,
                   fs0, begun, stopped, raised, prev, protect_sxxeyy, arg, res, events,
                   lastId, shown>>

\* LogHub.push: under the lock, taken anew, the event is appended and the buffer is cut to
\* the last keep events
EmitPush(t) ==
    /\ emitting[t] # 0
    /\ events' = LET evs == Append(events, emitting[t])
                 IN  IF Len(evs) > Keep THEN SubSeq(evs, Len(evs) - Keep + 1, Len(evs))
                     ELSE evs
    /\ emitting' = [emitting EXCEPT ![t] = 0]
    /\ UNCHANGED <<fs, listOrder, on_conflict, dry_run, resume, run, mpc, series_paths, idx,
                   done_set, stateLedger, undoLedger, cache, stop, stack, log, calls,
                   collisions, fs0, begun, stopped, raised, prev, protect_sxxeyy, arg, res,
                   seq, lastId, shown>>

\* LogHub.snapshot(limit, since), limit being above keep
snapshot(since) ==
    IF since > 0 THEN SelectSeq(events, LAMBDA e : e > since) ELSE events

\* the page polls /api/events?since=lastId and keeps the largest id it has received
Poll ==
    /\ shown' = shown \cup Range(snapshot(lastId))
    /\ lastId' = Max({lastId} \cup Range(snapshot(lastId)))
    /\ shown' # shown
    /\ UNCHANGED <<fs, listOrder, on_conflict, dry_run, resume, run, mpc, series_paths, idx,
                   done_set, stateLedger, undoLedger, cache, stop, stack, log, calls,
                   collisions, fs0, begun, stopped, raised, prev, protect_sxxeyy, arg, res,
                   seq, events, emitting>>

NextHub ==
    \/ \E t \in Threads : EmitNextId(t)
    \/ \E t \in Threads : EmitPush(t)
    \/ Poll

SpecHub == InitWith({LibLoose}, FALSE) /\ [][NextHub]_vars

\* ---------------------------------------------------------------------------------------
\* C30: event ids under concurrent emit calls
\* ---------------------------------------------------------------------------------------

\* C30: with emit called by the engine thread and by the stop handler thread, the ids of
\* the events are unique and the events become visible in increasing id order, so the page
\* that polls snapshot(since = the largest id it has seen) has received every event of the
\* retained buffer whose id is not above that id
C30_PollMissesNothing ==
    /\ \A i, j \in 1..Len(events) : i < j => events[i] < events[j]
    /\ \A i \in 1..Len(events) : events[i] <= lastId => events[i] \in shown

====
